---- MODULE Spec2Model ----
(***************************************************************************)
(* Verification model of the Nexus-Engine reliability and routing toolkit. *)
(* Each component is modelled as its own state machine over its own        *)
(* variables; a component's specification leaves the other components in   *)
(* their idle state.                                                       *)
(*                                                                         *)
(*   SpecCB  CircuitBreaker      (engine/CircuitBreaker/CircuitBreaker.py) *)
(*   SpecSW  SlidingWindow       (engine/rate_limiting/SlidingWindow.py)   *)
(*   SpecFW  FixedWindowCounter  (engine/rate_limiting/FixedWindowCounter.py) *)
(*   SpecCH  ConsistentHashing   (engine/ConsistentHashing/ConsistentHashing.py) *)
(*   SpecRR  RoundRobin          (engine/LoadBalancer/RoundRobin.py,       *)
(*                                engine/LoadBalancer/LBStrategy.py)       *)
(***************************************************************************)
EXTENDS Integers, Sequences, FiniteSets, TLC

VARIABLES
    cb,         \* the CircuitBreaker object (its fields)
    cb_now,     \* wall clock read by the breaker, in whole seconds
    cb_last,    \* the last public call on the breaker and what it returned
    sw,         \* the SlidingWindow object (its fields)
    sw_now,     \* wall clock read by the sliding window, epoch milliseconds
    sw_last,    \* the last public call on the sliding window and its result
    sw_admits,  \* history: per key, the timestamps of the calls allow() admitted
    fw,         \* the FixedWindowCounter object (its fields)
    fw_last,    \* the last public call on the fixed window, the clock value it
                \* read (epoch milliseconds) and its result
    ch,         \* the ConsistentHashing object (its fields)
    ch_last,    \* the last public call on the ring and the ring before it
    ch_db,      \* the backing store of the ring: whether db=True, and the items by server
    rr,         \* the RoundRobin strategy object with its pool of Server objects
    rr_inflight,\* per backend, the handle_request calls suspended at the send
    rr_last,    \* the last step of the round-robin balancer and its outcome
    rr_hist,    \* history: the ids returned by the latest consecutive next()
                \* calls made while every backend was healthy and below cap
    wrr,        \* the WeightedRoundRobin strategy object with its pool of servers
    wrr_inflight,\* per backend, the handle_request calls suspended at the send
    wrr_last,   \* the last step of the weighted balancer, the object before it, its outcome
    wrr_run,    \* history: results of the consecutive next() calls made so far while every backend was healthy and below cap
    tq,         \* the TaskQueue object (its fields)
    tq_enqueued,\* number of tasks enqueued so far; task ids are given out in this order
    wk,         \* the Worker object (its fields)
    wk_pc,      \* where the execute_tasks coroutine stands, with its locals
    wk_now,     \* wall clock read by the worker, in whole seconds
    wk_hist,    \* history: invocations and sleeps spent on the task dequeued last
    wk_rec,     \* history: every TaskResult recorded so far, in recording order
    tq_log,     \* history: the tasks dequeue() handed out, in order
    wk_stop,    \* history: stop() was called since execute_tasks last returned
    rt,         \* a retry-wrapped callable: its settings and the locals of the running call
    rt_hist,    \* history of the running call: invocations, sleeps, how it ended
    hg,         \* a fetch_data call of RequestHedging: where it stands, its two attempt tasks
    hg_hist,    \* history of the call: attempts created, attempts that ended after the deadline
    to,         \* a Timeout-wrapped coroutine function: its settings and the running call
    to_hist,    \* history of the running call: how op ended, the fallback calls made
    lc,         \* a LeastConnectionsLoadBalancing strategy: its servers in dict order
    lc_inflight,\* handle_request calls suspended at the send, by server key
    lc_last,    \* the last call on the strategy, its result and the strategy before it
    cc,         \* a CircuitBreaker shared by several callers
    cc_now,     \* the wall clock those callers read
    cc_pc,      \* per caller: idle, or the handler whose callable is executing
    cc_hist,    \* callables invoked since the breaker last became Half-Open
    lt,         \* a LeastTime strategy: its servers and the cached minimum
    lt_inflight,\* handle_request calls suspended at the send, by server key
    lt_last     \* the last call on the strategy, its result and the strategy before it

cbvars == <<cb, cb_now, cb_last>>
swvars == <<sw, sw_now, sw_last, sw_admits>>

fwvars == <<fw, fw_last>>

chvars == <<ch, ch_last, ch_db>>

rrvars == <<rr, rr_inflight, rr_last, rr_hist>>

wrrvars == <<wrr, wrr_inflight, wrr_last, wrr_run>>

wkvars == <<tq, tq_enqueued, wk, wk_pc, wk_now, wk_hist, wk_rec, tq_log, wk_stop>>

rtvars == <<rt, rt_hist>>

hgvars == <<hg, hg_hist>>

tovars == <<to, to_hist>>

lcvars == <<lc, lc_inflight, lc_last>>

ccvars == <<cc, cc_now, cc_pc, cc_hist>>

ltvars == <<lt, lt_inflight, lt_last>>

vars == <<cbvars, swvars, fwvars, chvars, rrvars, wrrvars, wkvars, rtvars, hgvars, tovars, lcvars, ccvars, ltvars>>

\* what each component's operations leave alone: the other components
CbOthers == <<swvars, fwvars, chvars, rrvars, wrrvars, wkvars, rtvars, hgvars, tovars, lcvars, ccvars, ltvars>>
SwOthers == <<cbvars, fwvars, chvars, rrvars, wrrvars, wkvars, rtvars, hgvars, tovars, lcvars, ccvars, ltvars>>
FwOthers == <<cbvars, swvars, chvars, rrvars, wrrvars, wkvars, rtvars, hgvars, tovars, lcvars, ccvars, ltvars>>
ChOthers == <<cbvars, swvars, fwvars, rrvars, wrrvars, wkvars, rtvars, hgvars, tovars, lcvars, ccvars, ltvars>>
RrOthers == <<cbvars, swvars, fwvars, chvars, wrrvars, wkvars, rtvars, hgvars, tovars, lcvars, ccvars, ltvars>>
WrrOthers == <<cbvars, swvars, fwvars, chvars, rrvars, wkvars, rtvars, hgvars, tovars, lcvars, ccvars, ltvars>>
WkOthers == <<cbvars, swvars, fwvars, chvars, rrvars, wrrvars, rtvars, hgvars, tovars, lcvars, ccvars, ltvars>>
RtOthers == <<cbvars, swvars, fwvars, chvars, rrvars, wrrvars, wkvars, hgvars, tovars, lcvars, ccvars, ltvars>>
HgOthers == <<cbvars, swvars, fwvars, chvars, rrvars, wrrvars, wkvars, rtvars, tovars, lcvars, ccvars, ltvars>>
ToOthers == <<cbvars, swvars, fwvars, chvars, rrvars, wrrvars, wkvars, rtvars, hgvars, lcvars, ccvars, ltvars>>
LcOthers == <<cbvars, swvars, fwvars, chvars, rrvars, wrrvars, wkvars, rtvars, hgvars, tovars, ccvars, ltvars>>
CcOthers == <<cbvars, swvars, fwvars, chvars, rrvars, wrrvars, wkvars, rtvars, hgvars, tovars, lcvars, ltvars>>
LtOthers == <<cbvars, swvars, fwvars, chvars, rrvars, wrrvars, wkvars, rtvars, hgvars, tovars, lcvars, ccvars>>

(***************************************************************************)
(* Bounds of the model.                                                    *)
(***************************************************************************)
MaxCbNow == 4       \* the breaker clock runs over 0..MaxCbNow
MaxCbCalls == 4     \* cap on success + error in the Closed state
MaxSwNow == 3000    \* the sliding-window clock runs over SwEpoch..MaxSwNow
MaxSwOps == 5       \* cap on allowed + denied of the sliding window
MaxFwTicks == 4     \* the fixed-window clock takes the values k * FwStep, k in 0..MaxFwTicks
HashBits == 3       \* the hash space of the ring model is [0, 2^HashBits)
MaxRingLen == 4     \* cap on the number of vnodes on the ring
MaxRrRequests == 4  \* cap on the handle_request calls started on the round-robin pool
MaxRrHist == 7      \* number of consecutive next() results kept in rr_hist
MaxWrrCalls == 70   \* cap on the length of a run of next() calls on the weighted pool
MaxWrrRequests == 1 \* cap on the handle_request calls started on the weighted pool
MaxTasks == 3       \* cap on the tasks enqueued on the task queue
MaxWkNow == 1       \* cap on the worker's clock
MaxChItems == 2     \* cap on the items stored by insert_data
MaxLcRequests == 4  \* cap on the handle_request calls started on the least-connections pool
MvServers == 10     \* servers of the ring of the move-fraction scenario
MvNodes == 100      \* vnodes per server of the ring of the move-fraction scenario
MvHashBits == 13    \* the hash space of that ring is [0, 2^MvHashBits)
MvKeys == 100       \* number of keys stored on that ring
MaxLtRequests == 3  \* cap on the handle_request calls started on the least-time pool
MaxFwOps == 3       \* cap on allowed + denied of the fixed window

(***************************************************************************)
(* Helpers.                                                                *)
(***************************************************************************)
\* Python's None for an optional integer: the empty sequence; <<t>> is t.
None == <<>>

\* round(num / den, 4) as a count of ten-thousandths (round to nearest; the
\* counters of the model never produce a tie).
Round4(num, den) == (20000 * num + den) \div (2 * den)

(***************************************************************************)
(* CircuitBreaker                                                          *)
(***************************************************************************)
CLOSED_STATE == "Closed"
HALF_OPEN_STATE == "Half-Open"
OPEN_STATE == "Open"

\* failure_rate values given to the constructor, as exact fractions in (0, 1]
CbFailureRates == { [num |-> 1, den |-> 4], [num |-> 1, den |-> 3],
                    [num |-> 1, den |-> 2], [num |-> 1, den |-> 1] }
CbDurations == {1, 2}
CbHalfCalls == {1, 2}
\* what the protected callable does when it is invoked
CbOutcomes == {"return", "raise"}

\* __init__
CbNew(failure_rate, duration_until_half_opened, open_half_calls) ==
    [ state |-> CLOSED_STATE,
      time_opened |-> None,
      failure_rate |-> failure_rate,
      duration_until_half_opened |-> duration_until_half_opened,
      open_half_calls |-> open_half_calls,
      success |-> 0, error |-> 0,
      half_open_success |-> 0, half_open_error |-> 0 ]

\* __get_failure_rate: round(error / total, 4), in ten-thousandths
CbGetFailureRate(c) ==
    LET total == c.success + c.error
    IN  IF total = 0 THEN 0 ELSE Round4(c.error, total)

\* the (ok, result, err) tuple run() returns, with whether the callable ran
CbRet(c, ok, err, invoked) == [cb |-> c, ok |-> ok, err |-> err, invoked |-> invoked]

\* __handle_closed
CbHandleClosed(c, f, now) ==
    LET should_be_open ==
            CbGetFailureRate(c) * c.failure_rate.den >= 10000 * c.failure_rate.num
    IN  IF should_be_open
        THEN CbRet([c EXCEPT !.state = OPEN_STATE, !.time_opened = <<now>>],
                   FALSE, "open_error", FALSE)
        ELSE IF f = "raise"
        THEN CbRet([c EXCEPT !.error = @ + 1], FALSE, "op_error", TRUE)
        ELSE CbRet([c EXCEPT !.success = @ + 1], TRUE, "none", TRUE)

\* __handle_half_open
CbHandleHalfOpenMut(c, f, now) ==
    LET half_open_calls == c.half_open_success + c.half_open_error
        total == c.half_open_success + c.half_open_error
        \* failure_rate = half_open_error / total if total else 1.0
        should_be_closed ==
            IF total = 0 THEN c.failure_rate.num >= c.failure_rate.den
            ELSE c.half_open_error * c.failure_rate.den < c.failure_rate.num * total
    IN  IF half_open_calls >= c.open_half_calls
        THEN IF should_be_closed
             THEN CbHandleClosed([c EXCEPT !.success = 0, !.error = 0,
                                           !.time_opened = None,
                                           !.state = CLOSED_STATE], f, now)
             ELSE CbRet([c EXCEPT !.state = OPEN_STATE, !.time_opened = <<now>>],
                        FALSE, "open_error", FALSE)
        ELSE IF f = "raise"
        THEN CbRet([c EXCEPT !.half_open_error = @ + 1], FALSE, "op_error", TRUE)
        ELSE CbRet([c EXCEPT !.half_open_success = @ + 1], TRUE, "none", TRUE)
CbHandleHalfOpen(c, f, now) ==
    LET half_open_calls == c.half_open_success + c.half_open_error
        total == c.half_open_success + c.half_open_error
        \* failure_rate = half_open_error / total if total else 1.0
        should_be_closed ==
            IF total = 0 THEN c.failure_rate.num >= c.failure_rate.den
            ELSE c.half_open_error * c.failure_rate.den <= c.failure_rate.num * total
    IN  IF half_open_calls >= c.open_half_calls
        THEN IF should_be_closed
             THEN CbHandleClosed([c EXCEPT !.success = 0, !.error = 0,
                                           !.time_opened = None,
                                           !.state = CLOSED_STATE], f, now)
             ELSE CbRet([c EXCEPT !.state = OPEN_STATE, !.time_opened = <<now>>],
                        FALSE, "open_error", FALSE)
        ELSE IF f = "raise"
        THEN CbRet([c EXCEPT !.half_open_error = @ + 1], FALSE, "op_error", TRUE)
        ELSE CbRet([c EXCEPT !.half_open_success = @ + 1], TRUE, "none", TRUE)

\* __handle_open
CbHandleOpenClearMut(c, f, now) ==
    LET should_be_half_open ==
            (now - c.time_opened[1]) >= c.duration_until_half_opened
    IN  IF should_be_half_open
        THEN CbHandleHalfOpen([c EXCEPT !.state = HALF_OPEN_STATE,
                                        !.time_opened = <<now>>,
                                        !.half_open_success = 0,
                                        !.half_open_error = 0], f, now)
        ELSE CbRet(c, FALSE, "open_error", FALSE)
CbHandleOpenMut(c, f, now) ==
    LET should_be_half_open ==
            (now - c.time_opened[1]) > c.duration_until_half_opened
    IN  IF should_be_half_open
        THEN CbHandleHalfOpen([c EXCEPT !.state = HALF_OPEN_STATE,
                                        !.half_open_success = 0,
                                        !.half_open_error = 0], f, now)
        ELSE CbRet(c, FALSE, "open_error", FALSE)
CbHandleOpen(c, f, now) ==
    LET should_be_half_open ==
            (now - c.time_opened[1]) >= c.duration_until_half_opened
    IN  IF should_be_half_open
        THEN CbHandleHalfOpen([c EXCEPT !.state = HALF_OPEN_STATE,
                                        !.half_open_success = 0,
                                        !.half_open_error = 0], f, now)
        ELSE CbRet(c, FALSE, "open_error", FALSE)

\* run: dispatch on the state
CbRunResult(c, f, now) ==
    IF c.state = CLOSED_STATE THEN CbHandleClosed(c, f, now)
    ELSE IF c.state = OPEN_STATE THEN CbHandleOpen(c, f, now)
    ELSE CbHandleHalfOpen(c, f, now)

\* reset
CbResetResultMut(c) ==
    [c EXCEPT !.state = CLOSED_STATE, !.time_opened = None,
              !.success = 0, !.error = 0]
CbResetResult(c) ==
    [c EXCEPT !.state = CLOSED_STATE, !.time_opened = None,
              !.success = 0, !.error = 0,
              !.half_open_success = 0, !.half_open_error = 0]

CbLast(op, f, pre, now, r) ==
    [op |-> op, f |-> f, pre |-> pre, now |-> now,
     ok |-> r.ok, err |-> r.err, invoked |-> r.invoked]

CbInit ==
    /\ \E fr \in CbFailureRates, d \in CbDurations, h \in CbHalfCalls :
          cb = CbNew(fr, d, h)
    /\ cb_now = 0
    /\ cb_last = CbLast("init", "return", cb, 0, CbRet(cb, FALSE, "none", FALSE))

\* one run(function) call; the counters are capped for the model
CbRun(f) ==
    /\ cb.success + cb.error < MaxCbCalls
    /\ LET r == CbRunResult(cb, f, cb_now)
       IN  /\ cb' = r.cb
           /\ cb_last' = CbLast("run", f, cb, cb_now, r)
    /\ UNCHANGED <<cb_now, CbOthers>>

CbReset ==
    /\ cb' = CbResetResult(cb)
    /\ cb_last' = CbLast("reset", "return", cb, cb_now, CbRet(cb, FALSE, "none", FALSE))
    /\ UNCHANGED <<cb_now, CbOthers>>

\* the wall clock advances by one second
CbTick ==
    /\ cb_now < MaxCbNow
    /\ cb_now' = cb_now + 1
    /\ UNCHANGED <<cb, cb_last, CbOthers>>

CbNext ==
    \/ \E f \in CbOutcomes : CbRun(f)
    \/ CbReset
    \/ CbTick

(***************************************************************************)
(* CircuitBreaker shared by several callers.  The class takes no lock, so  *)
(* a caller can enter run() while the callable another caller handed to    *)
(* run() is still executing.  A call is two steps: from the entry of run() *)
(* to the invocation of the callable, and from the callable's end to the   *)
(* return of run().                                                        *)
(***************************************************************************)
CcCallers == {"t1", "t2"}

\* __handle_closed up to `result = function(*args, **kwargs)`
CcEnterClosed(c, now) ==
    LET should_be_open ==
            CbGetFailureRate(c) * c.failure_rate.den >= 10000 * c.failure_rate.num
    IN  IF should_be_open
        THEN [cb |-> [c EXCEPT !.state = OPEN_STATE, !.time_opened = <<now>>],
              at |-> "idle"]
        ELSE [cb |-> c, at |-> CLOSED_STATE]

\* __handle_half_open up to `result = function(*args, **kwargs)`
CcEnterHalfOpen(c, now) ==
    LET half_open_calls == c.half_open_success + c.half_open_error
        total == c.half_open_success + c.half_open_error
        should_be_closed ==
            IF total = 0 THEN c.failure_rate.num >= c.failure_rate.den
            ELSE c.half_open_error * c.failure_rate.den <= c.failure_rate.num * total
    IN  IF half_open_calls >= c.open_half_calls
        THEN IF should_be_closed
             THEN CcEnterClosed([c EXCEPT !.success = 0, !.error = 0,
                                          !.time_opened = None,
                                          !.state = CLOSED_STATE], now)
             ELSE [cb |-> [c EXCEPT !.state = OPEN_STATE, !.time_opened = <<now>>],
                   at |-> "idle"]
        ELSE [cb |-> c, at |-> HALF_OPEN_STATE]

\* run and __handle_open up to the invocation of the callable: the breaker
\* as the call leaves it there, and the handler that invokes the callable
\* ("idle" when the call returns without invoking it)
CcEnterResult(c, now) ==
    IF c.state = CLOSED_STATE THEN CcEnterClosed(c, now)
    ELSE IF c.state = OPEN_STATE
    THEN IF (now - c.time_opened[1]) >= c.duration_until_half_opened
         THEN CcEnterHalfOpen([c EXCEPT !.state = HALF_OPEN_STATE,
                                        !.half_open_success = 0,
                                        !.half_open_error = 0], now)
         ELSE [cb |-> c, at |-> "idle"]
    ELSE CcEnterHalfOpen(c, now)

\* the rest of the handler once the callable returned or raised
CcLeaveResult(c, at, f) ==
    IF at = CLOSED_STATE
    THEN IF f = "raise" THEN [c EXCEPT !.error = @ + 1]
         ELSE [c EXCEPT !.success = @ + 1]
    ELSE IF f = "raise" THEN [c EXCEPT !.half_open_error = @ + 1]
         ELSE [c EXCEPT !.half_open_success = @ + 1]

CcInit ==
    /\ \E fr \in CbFailureRates, d \in CbDurations, h \in CbHalfCalls :
          cc = CbNew(fr, d, h)
    /\ cc_now = 0
    /\ cc_pc = [t \in CcCallers |-> "idle"]
    /\ cc_hist = 0

\* caller t calls run(function): everything up to the callable's invocation
CcEnter(t) ==
    /\ cc_pc[t] = "idle"
    /\ cc.success + cc.error < MaxCbCalls
    /\ LET r == CcEnterResult(cc, cc_now)
           opened == cc.state = OPEN_STATE /\ r.cb.state # OPEN_STATE
           probes == IF opened THEN 0 ELSE cc_hist
       IN  /\ cc' = r.cb
           /\ cc_pc' = [cc_pc EXCEPT ![t] = r.at]
           /\ cc_hist' = IF r.at = HALF_OPEN_STATE THEN probes + 1 ELSE probes
    /\ UNCHANGED <<cc_now, CcOthers>>

\* the callable of caller t returns or raises, and run() returns
CcLeave(t, f) ==
    /\ cc_pc[t] # "idle"
    /\ cc' = CcLeaveResult(cc, cc_pc[t], f)
    /\ cc_pc' = [cc_pc EXCEPT ![t] = "idle"]
    /\ UNCHANGED <<cc_now, cc_hist, CcOthers>>

\* the wall clock advances by one second
CcTick ==
    /\ cc_now < MaxCbNow
    /\ cc_now' = cc_now + 1
    /\ UNCHANGED <<cc, cc_pc, cc_hist, CcOthers>>

CcNext ==
    \/ \E t \in CcCallers : CcEnter(t)
    \/ \E t \in CcCallers, f \in CbOutcomes : CcLeave(t, f)
    \/ CcTick

\* the shared breaker at rest, for the specifications of the other components
CcIdle ==
    /\ cc = CbNew([num |-> 1, den |-> 2], 1, 1)
    /\ cc_now = 0
    /\ cc_pc = [t \in CcCallers |-> "idle"]
    /\ cc_hist = 0


(***************************************************************************)
(* SlidingWindow                                                           *)
(***************************************************************************)
SwKeys == {"a", "b"}
SwUnits == {"second"}
SwWindows == {1}
SwLimits == {1, 2}
SwEpoch == 1000     \* the clock value at construction
SwStep == 500       \* the clock advances in steps of SwStep milliseconds

\* unit_ms of __get_starting_time
UnitMs(unit) ==
    CASE unit = "second" -> 1000
      [] unit = "minute" -> 60000
      [] unit = "hour" -> 3600000
      [] unit = "day" -> 86400000

\* a dict updated at one key (the key is added when absent)
DictPut(d, k, v) == (k :> v) @@ d

\* the suffix arr[i:] of a list, i counted from 0
SliceFrom(arr, i) == SubSeq(arr, i + 1, Len(arr))

\* bisect.bisect_left(arr, x): the binary search of the standard library
RECURSIVE BisectLeftLoop(_, _, _, _)
BisectLeftLoop(arr, x, lo, hi) ==
    IF lo < hi
    THEN LET mid == (lo + hi) \div 2
         IN  IF arr[mid + 1] < x
             THEN BisectLeftLoop(arr, x, mid + 1, hi)
             ELSE BisectLeftLoop(arr, x, lo, mid)
    ELSE lo
SwBisectLeftMut(arr, x) == Cardinality({i \in DOMAIN arr : arr[i] <= x})
SwBisectLeft(arr, x) == BisectLeftLoop(arr, x, 0, Len(arr))

\* __init__
SwNew(unit, window, limit) ==
    [ unit |-> unit, window |-> window, limit |-> limit,
      map |-> <<>>, blacklist |-> {}, user_metrics |-> <<>>,
      allowed |-> 0, denied |-> 0 ]

\* __get_starting_time, for a clock reading current_time
SwGetStartingTime(w, current_time) == current_time - w.window * UnitMs(w.unit)

\* allow(key); t1 is the clock read by __get_starting_time and t2 the clock
\* read when the timestamp is appended (t1 <= t2)
SwAllowResultMut(w, key, t1, t2) ==
    LET um0 == IF key \in DOMAIN w.user_metrics THEN w.user_metrics
               ELSE DictPut(w.user_metrics, key, <<0, 0>>)
    IN  [sw |-> [w EXCEPT !.user_metrics = DictPut(um0, key, <<um0[key][1], um0[key][2] + 1>>),
                          !.denied = @ + 1],
         result |-> FALSE, at |-> t1]
SwAllowResult(w, key, t1, t2) ==
    IF key \in w.blacklist
    THEN [sw |-> w, result |-> FALSE, at |-> t1]
    ELSE
    LET map0 == IF key \in DOMAIN w.map THEN w.map ELSE DictPut(w.map, key, <<>>)
        um0 == IF key \in DOMAIN w.map THEN w.user_metrics
               ELSE DictPut(w.user_metrics, key, <<0, 0>>)
        w0 == [w EXCEPT !.map = map0, !.user_metrics = um0]
    IN  IF Len(map0[key]) < w.limit
        THEN [sw |-> [w0 EXCEPT !.map[key] = Append(@, t1),
                                !.user_metrics[key][1] = @ + 1,
                                !.allowed = @ + 1],
              result |-> TRUE, at |-> t1]
        ELSE
        LET start_window == SwGetStartingTime(w, t1)
            i == SwBisectLeft(map0[key], start_window)
            arr == IF i > 0 THEN SliceFrom(map0[key], i) ELSE map0[key]
            w1 == [w0 EXCEPT !.map[key] = arr]
        IN  IF Len(arr) < w.limit
            THEN [sw |-> [w1 EXCEPT !.map[key] = Append(@, t2),
                                    !.user_metrics[key][1] = @ + 1,
                                    !.allowed = @ + 1],
                  result |-> TRUE, at |-> t2]
            ELSE [sw |-> [w1 EXCEPT !.user_metrics[key][2] = @ + 1,
                                    !.denied = @ + 1],
                  result |-> FALSE, at |-> t2]

\* remaining(key)
SwRemainingResultMut(w, key, now) ==
    IF key \notin DOMAIN w.map THEN w.limit
    ELSE IF w.limit - Len(w.map[key]) > 0 THEN w.limit - Len(w.map[key]) ELSE 0
SwRemainingResult(w, key, now) ==
    IF key \notin DOMAIN w.map THEN w.limit
    ELSE LET start_window == SwGetStartingTime(w, now)
             arr == w.map[key]
             i == SwBisectLeft(arr, start_window)
             current == Len(arr) - i
         IN  IF w.limit - current > 0 THEN w.limit - current ELSE 0

SwLast(op, key, pre, now, result) ==
    [op |-> op, key |-> key, pre |-> pre, now |-> now, result |-> result]

SwInit ==
    /\ \E u \in SwUnits, wd \in SwWindows, l \in SwLimits : sw = SwNew(u, wd, l)
    /\ sw_now = SwEpoch
    /\ sw_last = SwLast("init", "a", sw, sw_now, 0)
    /\ sw_admits = [k \in SwKeys |-> <<>>]

\* one allow(key) call; the clock may advance by d between its two reads
SwAllow(key, d) ==
    /\ sw.allowed + sw.denied < MaxSwOps
    /\ sw_now + d <= MaxSwNow
    /\ LET r == SwAllowResult(sw, key, sw_now, sw_now + d)
       IN  /\ r.at = sw_now + d
           /\ sw' = r.sw
           /\ sw_now' = sw_now + d
           /\ sw_last' = SwLast("allow", key, sw, sw_now, IF r.result THEN 1 ELSE 0)
           /\ sw_admits' = IF r.result
                           THEN [sw_admits EXCEPT ![key] = Append(@, r.at)]
                           ELSE sw_admits
    /\ UNCHANGED SwOthers

SwRemaining(key) ==
    /\ sw_last' = SwLast("remaining", key, sw, sw_now, SwRemainingResult(sw, key, sw_now))
    /\ UNCHANGED <<sw, sw_now, sw_admits, SwOthers>>

SwAddToBlacklist(key) ==
    /\ sw' = [sw EXCEPT !.blacklist = @ \cup {key}]
    /\ sw_last' = SwLast("add_to_blacklist", key, sw, sw_now, 0)
    /\ UNCHANGED <<sw_now, sw_admits, SwOthers>>

\* the (non-decreasing) wall clock advances
SwTick ==
    /\ sw_now + SwStep <= MaxSwNow
    /\ sw_now' = sw_now + SwStep
    /\ UNCHANGED <<sw, sw_last, sw_admits, SwOthers>>

SwNext ==
    \/ \E k \in SwKeys, d \in {0, SwStep} : SwAllow(k, d)
    \/ \E k \in SwKeys : SwRemaining(k)
    \/ \E k \in SwKeys : SwAddToBlacklist(k)
    \/ SwTick

\* the component at rest, for the specifications of the other components
SwIdle ==
    /\ sw = SwNew("second", 1, 1)
    /\ sw_now = SwEpoch
    /\ sw_last = SwLast("init", "a", sw, sw_now, 0)
    /\ sw_admits = [k \in SwKeys |-> <<>>]

\* the breaker at rest, for the specifications of the other components
CbIdle ==
    /\ cb = CbNew([num |-> 1, den |-> 2], 1, 1)
    /\ cb_now = 0
    /\ cb_last = CbLast("init", "return", cb, 0, CbRet(cb, FALSE, "none", FALSE))

(***************************************************************************)
(* FixedWindowCounter                                                      *)
(***************************************************************************)
FwKeys == {"a", "b"}
FwUnits == {"second"}
FwLimits == {1, 2}
FwEpoch == 500      \* the clock value at construction
FwStep == 500       \* granularity of the clock values of the model
FwTimes == {k * FwStep : k \in 0..MaxFwTicks}

\* dict.get(key, 0)
DictGet0(d, k) == IF k \in DOMAIN d THEN d[k] ELSE 0

\* __init__, at clock value now
FwNew(unit, limit, now) ==
    [ unit |-> unit, limit |-> limit, map |-> <<>>, start_window |-> now,
      blacklist |-> {}, allowed |-> 0, denied |-> 0, user_metrics |-> <<>> ]

\* _ensure_window_current, at clock value now_ms
FwEnsureWindowCurrentMut(w, now_ms) ==
    LET window_len == UnitMs(w.unit)
    IN  IF now_ms > w.start_window + window_len
        THEN [w EXCEPT !.start_window = now_ms, !.map = <<>>]
        ELSE w
FwEnsureWindowCurrent(w, now_ms) ==
    LET window_len == UnitMs(w.unit)
    IN  IF now_ms < w.start_window \/ now_ms > w.start_window + window_len
        THEN [w EXCEPT !.start_window = now_ms, !.map = <<>>]
        ELSE w

\* allow(key), at clock value now
FwAllowResultBlMut(w, key, now) ==
    LET um0 == IF key \in DOMAIN w.user_metrics THEN w.user_metrics
               ELSE DictPut(w.user_metrics, key, <<0, 0>>)
        w0 == [w EXCEPT !.user_metrics = um0]
        w1 == FwEnsureWindowCurrent(w0, now)
        count == DictGet0(w1.map, key)
    IN  IF key \in w.blacklist \/ count >= w1.limit
        THEN [fw |-> [w1 EXCEPT !.denied = @ + 1, !.user_metrics[key][2] = @ + 1],
              result |-> FALSE]
        ELSE [fw |-> [w1 EXCEPT !.map = DictPut(@, key, count + 1),
                                !.allowed = @ + 1,
                                !.user_metrics[key][1] = @ + 1],
              result |-> TRUE]
FwAllowResultMut(w, key, now) ==
    LET um0 == IF key \in DOMAIN w.user_metrics THEN w.user_metrics
               ELSE DictPut(w.user_metrics, key, <<0, 0>>)
        w0 == [w EXCEPT !.user_metrics = um0]
    IN  IF key \in w.blacklist
        THEN [fw |-> [w0 EXCEPT !.denied = @ + 1, !.user_metrics[key][2] = @ + 1],
              result |-> FALSE]
        ELSE
        LET w1 == FwEnsureWindowCurrent(w0, now)
            count == DictGet0(w1.map, key)
        IN  IF count > w1.limit
            THEN [fw |-> [w1 EXCEPT !.denied = @ + 1, !.user_metrics[key][2] = @ + 1],
                  result |-> FALSE]
            ELSE [fw |-> [w1 EXCEPT !.map = DictPut(@, key, count + 1),
                                    !.allowed = @ + 1,
                                    !.user_metrics[key][1] = @ + 1],
                  result |-> TRUE]
FwAllowResult(w, key, now) ==
    LET um0 == IF key \in DOMAIN w.user_metrics THEN w.user_metrics
               ELSE DictPut(w.user_metrics, key, <<0, 0>>)
        w0 == [w EXCEPT !.user_metrics = um0]
    IN  IF key \in w.blacklist
        THEN [fw |-> [w0 EXCEPT !.denied = @ + 1, !.user_metrics[key][2] = @ + 1],
              result |-> FALSE]
        ELSE
        LET w1 == FwEnsureWindowCurrent(w0, now)
            count == DictGet0(w1.map, key)
        IN  IF count >= w1.limit
            THEN [fw |-> [w1 EXCEPT !.denied = @ + 1, !.user_metrics[key][2] = @ + 1],
                  result |-> FALSE]
            ELSE [fw |-> [w1 EXCEPT !.map = DictPut(@, key, count + 1),
                                    !.allowed = @ + 1,
                                    !.user_metrics[key][1] = @ + 1],
                  result |-> TRUE]

\* remaining(key), at clock value now
FwRemainingResult(w, key, now) ==
    LET w1 == FwEnsureWindowCurrent(w, now)
    IN  [fw |-> w1, result |-> w1.limit - DictGet0(w1.map, key)]

FwLast(op, key, pre, now, result) ==
    [op |-> op, key |-> key, pre |-> pre, now |-> now, result |-> result]

FwInit ==
    /\ \E u \in FwUnits, l \in FwLimits : fw = FwNew(u, l, FwEpoch)
    /\ fw_last = FwLast("init", "a", fw, FwEpoch, 0)

\* allow(key) when the wall clock, which may move forwards or backwards
\* between calls, reads t
FwAllow(key, t) ==
    /\ fw.allowed + fw.denied < MaxFwOps
    /\ LET r == FwAllowResult(fw, key, t)
       IN  /\ fw' = r.fw
           /\ fw_last' = FwLast("allow", key, fw, t, IF r.result THEN 1 ELSE 0)
    /\ UNCHANGED FwOthers

\* remaining(key) when the wall clock reads t
FwRemaining(key, t) ==
    /\ LET r == FwRemainingResult(fw, key, t)
       IN  /\ fw' = r.fw
           /\ fw_last' = FwLast("remaining", key, fw, t, r.result)
    /\ UNCHANGED FwOthers

FwAddToBlacklist(key) ==
    /\ fw' = [fw EXCEPT !.blacklist = @ \cup {key}]
    /\ fw_last' = FwLast("add_to_blacklist", key, fw, fw_last.now, 0)
    /\ UNCHANGED FwOthers

FwRemoveFromBlacklist(key) ==
    /\ fw' = [fw EXCEPT !.blacklist = @ \ {key}]
    /\ fw_last' = FwLast("remove_from_blacklist", key, fw, fw_last.now, 0)
    /\ UNCHANGED FwOthers

FwNext ==
    \/ \E k \in FwKeys, t \in FwTimes : FwAllow(k, t)
    \/ \E k \in FwKeys, t \in FwTimes : FwRemaining(k, t)
    \/ \E k \in FwKeys : FwAddToBlacklist(k)
    \/ \E k \in FwKeys : FwRemoveFromBlacklist(k)

\* the component at rest, for the specifications of the other components
FwIdle ==
    /\ fw = FwNew("second", 1, FwEpoch)
    /\ fw_last = FwLast("init", "a", fw, FwEpoch, 0)

(***************************************************************************)
(* ConsistentHashing                                                       *)
(*                                                                         *)
(* The source's hash space is [0, 2^32); the model keeps the arithmetic of *)
(* the source (every position and gap taken modulo the size of the hash    *)
(* space) over a hash space of 2^HashBits positions.  The ring object      *)
(* carries the class constant UPPER_BOUND as its field upper_bound.        *)
(***************************************************************************)
\* UPPER_BOUND + 1, the size of the hash space
HashSpace == 2 ^ HashBits
UPPER_BOUND == HashSpace - 1

\* constructor arguments (servers, virtual_nodes) of the model
ChShapes == { <<1, 1>>, <<2, 1>>, <<1, 2>> }
\* server ids given to insert_virtual_node and delete_server
ChServerIds == 0..2

\* list.insert(at, v), at counted from 0
ListInsert(l, at, v) == SubSeq(l, 1, at) \o <<v>> \o SubSeq(l, at + 1, Len(l))

\* max of a non-empty set of integers
SetMax(S) == CHOOSE m \in S : \A x \in S : x <= m

\* pairs.sort(key=lambda x: x[1]): a stable sort of (server, position) pairs;
\* the pair at place rank[k] of the sorted list is pairs[k]
ChSortPairs(pairs) ==
    LET n == Len(pairs)
        before(j, k) == \/ pairs[j][2] < pairs[k][2]
                        \/ (pairs[j][2] = pairs[k][2] /\ j < k)
        rank == SubSeq([k \in 1..n |-> 1 + Cardinality({j \in 1..n : before(j, k)})], 1, n)
        at == SubSeq([i \in 1..n |-> CHOOSE k \in 1..n : rank[k] = i], 1, n)
    IN  SubSeq([i \in 1..n |-> pairs[at[i]]], 1, n)

\* __build_ring, for the random positions drawn (draws[k] is the k-th draw)
ChBuildRing(servers, nodes, draws) ==
    LET pairs == [k \in 1..(servers * nodes) |-> <<(k - 1) \div nodes, draws[k]>>]
        sorted == ChSortPairs(pairs)
        owned(sv) == {i \in 0..(Len(sorted) - 1) : sorted[i + 1][1] = sv}
    IN  [ servers |-> servers,
          nodes |-> nodes,
          upper_bound |-> UPPER_BOUND,
          ring_nodes |-> [i \in 1..Len(sorted) |-> sorted[i][2]],
          server_node_mapping |->
              [sv \in 0..(servers - 1) |-> [owned |-> owned(sv), max |-> SetMax(owned(sv))]] ]

\* __get_server_from_ring_index
ChGetServerFromRingIndex(mapping, index) ==
    IF \E sv \in DOMAIN mapping : index \in mapping[sv].owned
    THEN CHOOSE sv \in DOMAIN mapping : index \in mapping[sv].owned
    ELSE 0

\* the modular gap from ring position i to its successor (i counted from 0)
ChGap(c, i) ==
    LET ring == c.ring_nodes
        j == (i + 1) % Len(ring)
    IN  (ring[j + 1] - ring[i + 1]) % (c.upper_bound + 1)

\* __find_biggest_node_gap: the first index with the largest gap
ChFindBiggestNodeGap(c) ==
    LET indices == 0..(Len(c.ring_nodes) - 1)
        max_gap == SetMax({ChGap(c, k) : k \in indices})
    IN  CHOOSE i \in indices :
            /\ ChGap(c, i) = max_gap
            /\ \A k \in 0..(i - 1) : ChGap(c, k) < max_gap

\* insert_virtual_node(server)
ChInsertVirtualNodeShiftMut(c, server) ==
    LET ring == c.ring_nodes
        i == ChFindBiggestNodeGap(c)
        j == (i + 1) % Len(ring)
        lower == ring[i + 1]
        upper == ring[j + 1]
        span == (upper - lower) % (c.upper_bound + 1)
        new_val == (lower + span \div 2) % (c.upper_bound + 1)
        insert_at == i + 1
        shifted == [sv \in DOMAIN c.server_node_mapping |->
                      LET info == c.server_node_mapping[sv]
                      IN  [ owned |-> {IF idx > insert_at THEN idx + 1 ELSE idx :
                                           idx \in info.owned},
                            max |-> IF info.max >= insert_at THEN info.max + 1
                                    ELSE info.max ]]
        with == IF server \in DOMAIN shifted THEN shifted
                ELSE DictPut(shifted, server, [owned |-> {}, max |-> -1])
        mine == with[server]
    IN  [c EXCEPT !.ring_nodes = ListInsert(ring, insert_at, new_val),
                  !.server_node_mapping =
                      DictPut(with, server,
                              [ owned |-> mine.owned \cup {insert_at},
                                max |-> IF mine.max > insert_at THEN mine.max
                                        ELSE insert_at ])]
ChInsertVirtualNode(c, server) ==
    LET ring == c.ring_nodes
        i == ChFindBiggestNodeGap(c)
        j == (i + 1) % Len(ring)
        lower == ring[i + 1]
        upper == ring[j + 1]
        span == (upper - lower) % (c.upper_bound + 1)
        new_val == (lower + span \div 2) % (c.upper_bound + 1)
        insert_at == i + 1
        shifted == [sv \in DOMAIN c.server_node_mapping |->
                      LET info == c.server_node_mapping[sv]
                      IN  [ owned |-> {IF idx >= insert_at THEN idx + 1 ELSE idx :
                                           idx \in info.owned},
                            max |-> IF info.max >= insert_at THEN info.max + 1
                                    ELSE info.max ]]
        with == IF server \in DOMAIN shifted THEN shifted
                ELSE DictPut(shifted, server, [owned |-> {}, max |-> -1])
        mine == with[server]
    IN  [c EXCEPT !.ring_nodes = ListInsert(ring, insert_at, new_val),
                  !.server_node_mapping =
                      DictPut(with, server,
                              [ owned |-> mine.owned \cup {insert_at},
                                max |-> IF mine.max > insert_at THEN mine.max
                                        ELSE insert_at ])]

\* insert_server: for _ in range(self.nodes): insert_virtual_node(new_server),
\* from the iteration numbered done on
RECURSIVE ChInsertNodes(_, _, _)
ChInsertNodes(c, server, done) ==
    IF done >= c.nodes THEN c
    ELSE ChInsertNodes(ChInsertVirtualNode(c, server), server, done + 1)
ChInsertServer(c) ==
    LET new_server == c.servers
        fresh == [c EXCEPT !.server_node_mapping =
                               DictPut(@, new_server, [owned |-> {}, max |-> -1])]
        filled == ChInsertNodes(fresh, new_server, 0)
    IN  [filled EXCEPT !.servers = @ + 1]

\* a dict without one key
DictDel(d, k) == [x \in (DOMAIN d) \ {k} |-> d[x]]

\* delete_server(server_int)
ChDeleteServer(c, server_int) ==
    LET virtual_nodes == c.server_node_mapping[server_int].owned
        max_idx == c.server_node_mapping[server_int].max
        next_idx == (max_idx + 1) % Len(c.ring_nodes)
        new_server == ChGetServerFromRingIndex(c.server_node_mapping, next_idx)
        removed == DictDel(c.server_node_mapping, server_int)
        with == IF new_server \in DOMAIN removed THEN removed
                ELSE DictPut(removed, new_server, [owned |-> {}, max |-> -1])
        moved_max == IF virtual_nodes = {} THEN -1 ELSE SetMax(virtual_nodes)
        target == with[new_server]
    IN  [c EXCEPT !.server_node_mapping =
                      DictPut(with, new_server,
                              [ owned |-> target.owned \cup virtual_nodes,
                                max |-> IF target.max > moved_max THEN target.max
                                        ELSE moved_max ]),
                  !.servers = @ - 1]

\* get_node_capacity(node)
ChGetNodeCapacity(c, node) ==
    IF node < 0 \/ node >= Len(c.ring_nodes) THEN -1
    ELSE ChGap(c, node)

\* sum(get_node_capacity(virtual_node) for virtual_node in nodes)
RECURSIVE ChSumNodeCapacity(_, _)
ChSumNodeCapacity(c, nodes) ==
    IF nodes = {} THEN 0
    ELSE LET node == CHOOSE x \in nodes : TRUE
         IN  ChGetNodeCapacity(c, node) + ChSumNodeCapacity(c, nodes \ {node})

\* get_server_capacity(server)
ChGetServerCapacity(c, server) ==
    IF server \notin DOMAIN c.server_node_mapping THEN -1
    ELSE ChSumNodeCapacity(c, c.server_node_mapping[server].owned)

ChLast(op, server, pre, db) == [op |-> op, server |-> server, pre |-> pre, db |-> db]

\* self.db = {} if db else None
ChNewDb(db) == [enabled |-> db, data |-> <<>>]

\* __get_ring_index_from_hash
ChGetRingIndexFromHashMut(c, hash_val) == hash_val % (c.servers + 1)
ChGetRingIndexFromHash(c, hash_val) == hash_val % Len(c.ring_nodes)

\* get_server(data), for the hash value of data reduced modulo UPPER_BOUND + 1
ChGetServer(c, hash_val) ==
    ChGetServerFromRingIndex(c.server_node_mapping, ChGetRingIndexFromHash(c, hash_val))

\* insert_data(data): the store afterwards; an item is told by its hash value
ChInsertData(c, db, hash_val) ==
    LET server == ChGetServer(c, hash_val)
        had == IF server \in DOMAIN db.data THEN db.data[server] ELSE <<>>
    IN  IF db.enabled
        THEN [db EXCEPT !.data = DictPut(db.data, server, Append(had, hash_val))]
        ELSE db

\* delete_server(server_int): what it does to the store
ChDeleteServerDb(c, db, server_int) ==
    LET max_idx == c.server_node_mapping[server_int].max
        next_idx == (max_idx + 1) % Len(c.ring_nodes)
        new_server == ChGetServerFromRingIndex(c.server_node_mapping, next_idx)
        d1 == IF new_server \in DOMAIN db.data THEN db.data
              ELSE DictPut(db.data, new_server, <<>>)
        d2 == IF server_int \in DOMAIN d1 THEN d1 ELSE DictPut(d1, server_int, <<>>)
        d3 == DictPut(d2, new_server, d2[new_server] \o d2[server_int])
    IN  IF db.enabled THEN [db EXCEPT !.data = DictDel(d3, server_int)] ELSE db

\* __init__(servers, virtual_nodes): every outcome of the random draws
ChInit ==
    /\ \E shape \in ChShapes :
         \E draws \in [1..(shape[1] * shape[2]) -> 0..UPPER_BOUND] :
            ch = ChBuildRing(shape[1], shape[2], draws)
    /\ ch_db = ChNewDb(FALSE)
    /\ ch_last = ChLast("init", 0, ch, ch_db)

ChDoInsertVirtualNode(server) ==
    /\ Len(ch.ring_nodes) + 1 <= MaxRingLen
    /\ ch' = ChInsertVirtualNode(ch, server)
    /\ ch_last' = ChLast("insert_virtual_node", server, ch, ch_db)
    /\ UNCHANGED <<ch_db, ChOthers>>

ChDoInsertServer ==
    /\ Len(ch.ring_nodes) + ch.nodes <= MaxRingLen
    /\ ch' = ChInsertServer(ch)
    /\ ch_last' = ChLast("insert_server", ch.servers, ch, ch_db)
    /\ UNCHANGED <<ch_db, ChOthers>>

\* delete_server(server_int) of a server of the mapping (any other id raises)
ChDoDeleteServer(server_int) ==
    /\ server_int \in DOMAIN ch.server_node_mapping
    /\ ch.servers > 0
    /\ ch' = ChDeleteServer(ch, server_int)
    /\ ch_db' = ChDeleteServerDb(ch, ch_db, server_int)
    /\ ch_last' = ChLast("delete_server", server_int, ch, ch_db)
    /\ UNCHANGED ChOthers

ChNext ==
    \/ \E sv \in ChServerIds : ChDoInsertVirtualNode(sv)
    \/ ChDoInsertServer
    \/ \E sv \in ChServerIds : ChDoDeleteServer(sv)

\* the number of items in the store
RECURSIVE ChCountItems(_, _)
ChCountItems(data, servers) ==
    IF servers = {} THEN 0
    ELSE LET sv == CHOOSE x \in servers : TRUE
         IN  Len(data[sv]) + ChCountItems(data, servers \ {sv})
ChStored(db) == ChCountItems(db.data, DOMAIN db.data)

\* the ring built with db=True
ChDbShapes == { <<2, 1>>, <<2, 2>> }
\* the hash values of the items given to insert_data
ChDataKeys == {0, 3}

ChDbInit ==
    /\ \E shape \in ChDbShapes :
         \E draws \in [1..(shape[1] * shape[2]) -> 0..UPPER_BOUND] :
            ch = ChBuildRing(shape[1], shape[2], draws)
    /\ ch_db = ChNewDb(TRUE)
    /\ ch_last = ChLast("init", 0, ch, ch_db)

ChDoInsertData(hash_val) ==
    /\ Cardinality(DOMAIN ch.server_node_mapping) > 0
    /\ ChStored(ch_db) < MaxChItems
    /\ ch_db' = ChInsertData(ch, ch_db, hash_val)
    /\ ch_last' = ChLast("insert_data", ChGetServer(ch, hash_val), ch, ch_db)
    /\ UNCHANGED <<ch, ChOthers>>

ChDbNext ==
    \/ ChNext
    \/ \E h \in ChDataKeys : ChDoInsertData(h)

\* The move-fraction scenario: a ring of MvServers servers with MvNodes vnodes
\* each is built with db=True, MvKeys keys are stored with insert_data, then
\* insert_server() is called once.
MvHashSpace == 2 ^ MvHashBits
\* the random positions drawn by __build_ring: the k-th draw is k * a modulo
\* the size of the hash space, for an odd multiplier a (distinct positions,
\* the vnodes of the servers interleaved around the ring)
MvMultipliers == {5063, 3001}
MvDraws(a) == [k \in 1..(MvServers * MvNodes) |-> (k * a) % MvHashSpace]
\* the hash value of the k-th key: MvKeys values evenly spaced over the hash space
MvKeyHash(k) == ((k - 1) * MvHashSpace) \div MvKeys

MvInit ==
    /\ \E a \in MvMultipliers :
           ch = [ChBuildRing(MvServers, MvNodes, MvDraws(a))
                    EXCEPT !.upper_bound = MvHashSpace - 1]
    /\ ch_db = ChNewDb(TRUE)
    /\ ch_last = ChLast("init", 0, ch, ch_db)

\* insert_data(key) of the next key
MvInsertData ==
    /\ ch_last.op # "insert_server"
    /\ ChStored(ch_db) < MvKeys
    /\ LET hash_val == MvKeyHash(ChStored(ch_db) + 1)
       IN  /\ ch_db' = ChInsertData(ch, ch_db, hash_val)
           /\ ch_last' = ChLast("insert_data", ChGetServer(ch, hash_val), ch, ch_db)
    /\ UNCHANGED <<ch, ChOthers>>

\* insert_server(), once every key is stored
MvInsertServer ==
    /\ ch_last.op # "insert_server"
    /\ ChStored(ch_db) = MvKeys
    /\ ch' = ChInsertServer(ch)
    /\ ch_last' = ChLast("insert_server", ch.servers, ch, ch_db)
    /\ UNCHANGED <<ch_db, ChOthers>>

MvNext ==
    \/ MvInsertData
    \/ MvInsertServer

\* the component at rest, for the specifications of the other components
ChIdle ==
    /\ ch = ChBuildRing(1, 1, <<0>>)
    /\ ch_db = ChNewDb(FALSE)
    /\ ch_last = ChLast("init", 0, ch, ch_db)

(***************************************************************************)
(* RoundRobin load-balancing strategy                                      *)
(***************************************************************************)
\* the pools the strategy is built on: the server keys in dict order
RrPools == { <<"s1">>, <<"s1", "s2">>, <<"s1", "s2", "s3">> }
\* max_connections given to the servers of a pool
RrMaxConnections == {1, 2}
\* the healthy threshold 0.5 of from_config, in hundred-thousandths, and the
\* thresholds of the model: 0.5 and 0.33333
RrHealthy == 50000
RrHealthyThresholds == {RrHealthy, 33333}
\* what the HTTP send of a request does
RrSendOutcomes == {"response", "raise"}

\* round(num / den, 5) as a count of hundred-thousandths
Round5(num, den) == (200000 * num + den) \div (2 * den)

\* ServerBuilder.build: a fresh Server with its Metadata
RrServer(max_connections) ==
    [ active_connections |-> 0, healthy |-> TRUE, weight |-> 1,
      max_connections |-> max_connections,
      total_requests |-> 0, sucess |-> 0, failure |-> 0, sucess_rate |-> 100000 ]

\* RoundRobin.__init__, with the random cursor position drawn
RrNew(pool, max_connections, healthy, current_idx) ==
    [ servers |-> [k \in {pool[i] : i \in DOMAIN pool} |-> RrServer(max_connections)],
      healthy |-> healthy,
      ordered_servers |-> pool,
      current_idx |-> current_idx,
      n |-> Len(pool) ]

\* the condition of __next__ under which a server is returned
RrEligibleMut(server) == server.active_connections < server.max_connections
RrEligible(server) ==
    server.healthy /\ server.active_connections < server.max_connections

\* the while loop of __next__
RECURSIVE RrNextLoop(_, _, _)
RrNextLoop(r, current_idx, iterations) ==
    IF iterations < r.n
    THEN LET idx == (current_idx + 1) % r.n
             server_key == r.ordered_servers[idx + 1]
         IN  IF RrEligible(r.servers[server_key])
             THEN [current_idx |-> idx, result |-> server_key]
             ELSE RrNextLoop(r, idx, iterations + 1)
    ELSE [current_idx |-> current_idx, result |-> "RuntimeError"]

\* __next__
RrNextResultMut(r) ==
    LET found == RrNextLoop(r, r.current_idx, 0)
    IN  [rr |-> r, result |-> found.result]
RrNextResult(r) ==
    LET found == RrNextLoop(r, r.current_idx, 0)
    IN  [rr |-> [r EXCEPT !.current_idx = found.current_idx], result |-> found.result]

\* handle_request after the send has completed with outcome: the except and
\* finally blocks; the call ends with the response, with the re-raised send
\* error, or with the TypeError of the finally_after_request call
RrFinishResultMut(r, server_key, outcome) ==
    LET sv == r.servers[server_key]
        sucess == IF outcome = "response" THEN sv.sucess + 1 ELSE sv.sucess
        failure == IF outcome = "raise" THEN sv.failure + 1 ELSE sv.failure
        total == sucess + failure
        sucess_rate == IF total > 0 THEN Round5(sucess, total) ELSE sv.sucess_rate
        done == [sv EXCEPT !.active_connections = IF outcome = "raise" THEN @ ELSE @ - 1,
                           !.sucess = sucess, !.failure = failure,
                           !.sucess_rate = sucess_rate,
                           !.total_requests = @ + 1,
                           !.healthy = (sucess_rate > r.healthy)]
    IN  [ rr |-> [r EXCEPT !.servers[server_key] = done],
          result |-> IF sucess > 0 THEN "TypeError"
                     ELSE IF outcome = "raise" THEN "transport_error"
                     ELSE "response" ]
RrFinishResult(r, server_key, outcome) ==
    LET sv == r.servers[server_key]
        sucess == IF outcome = "response" THEN sv.sucess + 1 ELSE sv.sucess
        failure == IF outcome = "raise" THEN sv.failure + 1 ELSE sv.failure
        total == sucess + failure
        sucess_rate == IF total > 0 THEN Round5(sucess, total) ELSE sv.sucess_rate
        done == [sv EXCEPT !.active_connections = @ - 1,
                           !.sucess = sucess, !.failure = failure,
                           !.sucess_rate = sucess_rate,
                           !.total_requests = @ + 1,
                           !.healthy = (sucess_rate > r.healthy)]
    IN  [ rr |-> [r EXCEPT !.servers[server_key] = done],
          result |-> IF sucess > 0 THEN "TypeError"
                     ELSE IF outcome = "raise" THEN "transport_error"
                     ELSE "response" ]

RrLast(op, key, result) == [op |-> op, key |-> key, result |-> result]

RrKeys(r) == DOMAIN r.servers
RrAllEligible(r) == \A k \in RrKeys(r) : RrEligible(r.servers[k])

\* the history of next() results: a call made while every backend is eligible
\* extends it, any other call starts it afresh
RrHistAfter(r, result) ==
    IF RrAllEligible(r)
    THEN LET h == Append(rr_hist, result)
         IN  IF Len(h) > MaxRrHist THEN Tail(h) ELSE h
    ELSE <<>>

RrStarted == LET total[S \in SUBSET RrKeys(rr)] ==
                     IF S = {} THEN 0
                     ELSE LET k == CHOOSE x \in S : TRUE
                          IN  rr.servers[k].total_requests + rr_inflight[k]
                                  + total[S \ {k}]
             IN  total[RrKeys(rr)]

RrInit ==
    /\ \E pool \in RrPools, m \in RrMaxConnections, h \in RrHealthyThresholds :
         \E idx \in 0..(Len(pool) - 1) : rr = RrNew(pool, m, h, idx)
    /\ rr_inflight = [k \in RrKeys(rr) |-> 0]
    /\ rr_last = RrLast("init", "none", "none")
    /\ rr_hist = <<>>

\* a direct next(strategy) call
RrNext ==
    /\ LET r == RrNextResult(rr)
       IN  /\ rr' = r.rr
           /\ rr_last' = RrLast("next", r.result, r.result)
           /\ rr_hist' = RrHistAfter(rr, r.result)
    /\ UNCHANGED <<rr_inflight, RrOthers>>

\* handle_request up to its suspension at the send: next(self), the assert,
\* active_connections += 1
RrHandleStart ==
    /\ RrStarted < MaxRrRequests
    /\ LET r == RrNextResult(rr)
       IN  /\ rr_hist' = RrHistAfter(rr, r.result)
           /\ IF r.result = "RuntimeError"
              THEN /\ rr' = r.rr
                   /\ rr_last' = RrLast("handle_request", "none", "RuntimeError")
                   /\ UNCHANGED rr_inflight
              ELSE /\ rr' = [r.rr EXCEPT !.servers[r.result].active_connections = @ + 1]
                   /\ rr_inflight' = [rr_inflight EXCEPT ![r.result] = @ + 1]
                   /\ rr_last' = RrLast("handle_start", r.result, r.result)
    /\ UNCHANGED RrOthers

\* a suspended handle_request resumes: the send returned or raised
RrHandleFinish(server_key, outcome) ==
    /\ server_key \in RrKeys(rr)
    /\ rr_inflight[server_key] > 0
    /\ LET r == RrFinishResult(rr, server_key, outcome)
       IN  /\ rr' = r.rr
           /\ rr_last' = RrLast("handle_request", server_key, r.result)
    /\ rr_inflight' = [rr_inflight EXCEPT ![server_key] = @ - 1]
    /\ UNCHANGED <<rr_hist, RrOthers>>

RrStep ==
    \/ RrNext
    \/ RrHandleStart
    \/ \E k \in {"s1", "s2", "s3"}, o \in RrSendOutcomes : RrHandleFinish(k, o)

\* the component at rest, for the specifications of the other components
RrIdle ==
    /\ rr = RrNew(<<"s1">>, 1, RrHealthy, 0)
    /\ rr_inflight = [k \in RrKeys(rr) |-> 0]
    /\ rr_last = RrLast("init", "none", "none")
    /\ rr_hist = <<>>

(***************************************************************************)
(* WeightedRoundRobin load-balancing strategy                              *)
(***************************************************************************)
\* the pools the strategy is built on: (key, weight) in dict order
WrrPools ==
    { << <<"A", 1>> >>,
      << <<"A", 1>>, <<"B", 1>> >>,
      << <<"A", 4>>, <<"B", 2>>, <<"C", 1>> >> }
WrrServerKeys == {"A", "B", "C"}
\* max_connections given to the servers of a pool
WrrMaxConnections == {1, 2}

WrrMin(S) == CHOOSE x \in S : \A y \in S : x <= y

\* __build_round_request_data: per server, in dict order, its key, its
\* requests per round and the request_number it is at
WrrBuildRoundRequestData(pool) ==
    LET min_weight == WrrMin({pool[i][2] : i \in DOMAIN pool})
    IN  [i \in DOMAIN pool |->
            [key |-> pool[i][1],
             requests |-> pool[i][2] \div min_weight,
             request_number |-> 0]]

\* WeightedRoundRobin.__init__, with the random cursor position drawn
WrrNew(pool, max_connections, current_idx) ==
    [ servers |-> [k \in {pool[i][1] : i \in DOMAIN pool} |->
                      LET i == CHOOSE j \in DOMAIN pool : pool[j][1] = k
                      IN  [RrServer(max_connections) EXCEPT !.weight = pool[i][2]]],
      healthy |-> RrHealthy,
      ordered_servers |-> WrrBuildRoundRequestData(pool),
      n |-> Len(pool),
      current_idx |-> current_idx ]

\* the while loop of WeightedRoundRobin.__next__
RECURSIVE WrrNextLoop(_, _)
WrrNextLoop(w, iterations) ==
    IF iterations < w.n
    THEN LET idx == (w.current_idx + 1) % w.n
             round_request == w.ordered_servers[idx + 1]
             server == w.servers[round_request.key]
             moved == [w EXCEPT !.current_idx = idx]
         IN  IF ~server.healthy \/ server.active_connections >= server.max_connections
             THEN WrrNextLoop(moved, iterations + 1)
             ELSE IF round_request.request_number < round_request.requests
             THEN [wrr |-> [moved EXCEPT !.ordered_servers[idx + 1].request_number = @ + 1],
                   result |-> round_request.key]
             ELSE WrrNextLoop(
                      [moved EXCEPT !.ordered_servers[idx + 1].request_number = 0],
                      iterations + 1)
    ELSE [wrr |-> w, result |-> "RuntimeError"]

\* WeightedRoundRobin.__next__
WrrNextResult(w) == WrrNextLoop(w, 0)

WrrKeys(w) == DOMAIN w.servers
WrrAllEligible(w) == \A k \in WrrKeys(w) : RrEligible(w.servers[k])
WrrSomeEligible(w) == \E k \in WrrKeys(w) : RrEligible(w.servers[k])

WrrLast(op, pre, result) == [op |-> op, pre |-> pre, result |-> result]

\* the run of next() calls made since construction while every backend was
\* eligible: how many calls, how many returned each backend, how many raised;
\* it is closed for good by the first call that finds a backend ineligible
WrrRunStart(keys) ==
    [open |-> TRUE, calls |-> 0, counts |-> [k \in keys |-> 0], errors |-> 0]
WrrRunAfter(w, result) ==
    IF wrr_run.open /\ WrrAllEligible(w)
    THEN IF result = "RuntimeError"
         THEN [wrr_run EXCEPT !.calls = @ + 1, !.errors = @ + 1]
         ELSE [wrr_run EXCEPT !.calls = @ + 1, !.counts[result] = @ + 1]
    ELSE [wrr_run EXCEPT !.open = FALSE]

WrrStarted == LET total[S \in SUBSET WrrKeys(wrr)] ==
                      IF S = {} THEN 0
                      ELSE LET k == CHOOSE x \in S : TRUE
                           IN  wrr.servers[k].total_requests + wrr_inflight[k]
                                   + total[S \ {k}]
              IN  total[WrrKeys(wrr)]

WrrInit ==
    /\ \E pool \in WrrPools, m \in WrrMaxConnections :
         \E idx \in 0..(Len(pool) - 1) : wrr = WrrNew(pool, m, idx)
    /\ wrr_inflight = [k \in WrrKeys(wrr) |-> 0]
    /\ wrr_last = WrrLast("init", wrr, "none")
    /\ wrr_run = WrrRunStart(WrrKeys(wrr))

\* a direct next(strategy) call
WrrNext ==
    /\ wrr_run.open => wrr_run.calls < MaxWrrCalls
    /\ LET r == WrrNextResult(wrr)
       IN  /\ wrr' = r.wrr
           /\ wrr_last' = WrrLast("next", wrr, r.result)
           /\ wrr_run' = WrrRunAfter(wrr, r.result)
    /\ UNCHANGED <<wrr_inflight, WrrOthers>>

\* handle_request up to its suspension at the send: next(self), the assert,
\* active_connections += 1
WrrHandleStart ==
    /\ WrrStarted < MaxWrrRequests
    /\ wrr_run.open => wrr_run.calls < MaxWrrCalls
    /\ LET r == WrrNextResult(wrr)
       IN  /\ wrr_run' = WrrRunAfter(wrr, r.result)
           /\ wrr_last' = WrrLast("handle_start", wrr, r.result)
           /\ IF r.result = "RuntimeError"
              THEN /\ wrr' = r.wrr
                   /\ UNCHANGED wrr_inflight
              ELSE /\ wrr' = [r.wrr EXCEPT !.servers[r.result].active_connections = @ + 1]
                   /\ wrr_inflight' = [wrr_inflight EXCEPT ![r.result] = @ + 1]
    /\ UNCHANGED WrrOthers

\* a suspended handle_request resumes: the send returned or raised
WrrHandleFinish(server_key, outcome) ==
    /\ server_key \in WrrKeys(wrr)
    /\ wrr_inflight[server_key] > 0
    /\ LET r == RrFinishResult(wrr, server_key, outcome)
       IN  /\ wrr' = r.rr
           /\ wrr_last' = WrrLast("handle_request", wrr, r.result)
    /\ wrr_inflight' = [wrr_inflight EXCEPT ![server_key] = @ - 1]
    /\ UNCHANGED <<wrr_run, WrrOthers>>

WrrStep ==
    \/ WrrNext
    \/ WrrHandleStart
    \/ \E k \in WrrServerKeys, o \in RrSendOutcomes : WrrHandleFinish(k, o)

\* the component at rest, for the specifications of the other components
WrrIdle ==
    /\ wrr = WrrNew(<< <<"A", 1>> >>, 1, 0)
    /\ wrr_inflight = [k \in WrrKeys(wrr) |-> 0]
    /\ wrr_last = WrrLast("init", wrr, "none")
    /\ wrr_run = WrrRunStart(WrrKeys(wrr))

(***************************************************************************)
(* TaskQueue and Worker                                                    *)
(***************************************************************************)
\* number of priority levels a queue is built with
TqPriorities == {1, 2}
\* max_results and max_retries a worker is built with
WkMaxResults == {1, 2}
WkMaxRetries == {1, 2, 3}
\* how an attempt at a task ends: it returns, it raises, or wait_for times out
WkOutcomes == {"return", "raise", "timeout"}

\* TaskQueue.__init__
TqNew(priorities) ==
    [ q |-> [i \in 1..priorities |-> <<>>], failed |-> <<>>, priorities |-> priorities ]

\* TaskQueue.enqueue
TqEnqueueResult(t, priority, task) ==
    [t EXCEPT !.q[priority + 1] = Append(@, task)]

\* TaskQueue.dequeue: the queue afterwards and the item returned, or None
RECURSIVE TqDequeueFrom(_, _)
TqDequeueFrom(t, i) ==
    IF i < t.priorities
    THEN IF Len(t.q[i + 1]) # 0
         THEN [tq |-> [t EXCEPT !.q[i + 1] = Tail(@)], item |-> <<Head(t.q[i + 1])>>]
         ELSE TqDequeueFrom(t, i + 1)
    ELSE [tq |-> t, item |-> None]
TqDequeueResultMut(t) == TqDequeueFrom(t, 1)
TqDequeueResult(t) == TqDequeueFrom(t, 0)

\* Worker.__init__
WkNew(max_results, max_retries) ==
    [ max_results |-> max_results, max_retries |-> max_retries,
      results |-> <<>>, is_running |-> FALSE ]

\* the result of a task: tasks are told apart by their id and return it
WkTaskResult(completed_at, task) == [completed_at |-> completed_at, result |-> task]

\* recording a result: popleft when the deque is full, then append
WkRecordMut(w, task, now) ==
    [w EXCEPT !.results = Append(w.results, WkTaskResult(now, task))]
WkRecord(w, task, now) ==
    LET kept == IF Len(w.results) >= w.max_results THEN Tail(w.results) ELSE w.results
    IN  [w EXCEPT !.results = Append(kept, WkTaskResult(now, task))]

\* backoff = 1 * (2 ** retries)
WkBackoff(retries) == 2 ^ retries

\* position and locals of execute_tasks
WkPc(at, task, retries) == [at |-> at, task |-> task, retries |-> retries]
WkHist(task, invocations, sleeps, before) ==
    [task |-> task, invocations |-> invocations, sleeps |-> sleeps, before |-> before]

\* history: the tasks dequeue() handed out, in order, each with the buffer it
\* was taken from
TqTaken(before, after, item) ==
    IF item = None THEN <<>>
    ELSE <<[task |-> item[1],
            priority |-> CHOOSE i \in 0..(before.priorities - 1) :
                             before.q[i + 1] # after.q[i + 1]]>>

WkInit ==
    /\ \E p \in TqPriorities : tq = TqNew(p)
    /\ tq_enqueued = 0
    /\ \E mr \in WkMaxResults, mt \in WkMaxRetries : wk = WkNew(mr, mt)
    /\ wk_pc = WkPc("idle", None, 0)
    /\ wk_now = 0
    /\ wk_hist = WkHist(None, 0, <<>>, <<>>)
    /\ wk_rec = <<>>
    /\ tq_log = <<>>
    /\ wk_stop = FALSE

\* a producer enqueues a fresh task
TqEnqueue(priority) ==
    /\ tq_enqueued < MaxTasks
    /\ priority < tq.priorities
    /\ tq' = TqEnqueueResult(tq, priority, tq_enqueued + 1)
    /\ tq_enqueued' = tq_enqueued + 1
    /\ UNCHANGED <<wk, wk_pc, wk_now, wk_hist, wk_rec, tq_log, wk_stop, WkOthers>>

\* execute_tasks is called: is_running = True, up to the first loop test
WkExecuteTasks ==
    /\ wk_pc.at \in {"idle", "done"}
    /\ wk' = [wk EXCEPT !.is_running = TRUE]
    /\ wk_pc' = WkPc("loop", None, 0)
    /\ UNCHANGED <<tq, tq_enqueued, wk_now, wk_hist, wk_rec, tq_log, wk_stop, WkOthers>>

\* Worker.stop
WkStop ==
    /\ wk' = [wk EXCEPT !.is_running = FALSE]
    /\ wk_stop' = TRUE
    /\ UNCHANGED <<tq, tq_enqueued, wk_pc, wk_now, wk_hist, wk_rec, tq_log, WkOthers>>

\* one pass of the main loop from its test to the next suspension: leave the
\* loop, or dequeue and either sleep on an empty queue or start the task
WkLoop ==
    /\ wk_pc.at = "loop"
    /\ IF ~wk.is_running
       THEN /\ wk_pc' = WkPc("done", None, 0)
            /\ wk_stop' = FALSE
            /\ UNCHANGED <<tq, wk_hist, tq_log>>
       ELSE LET d == TqDequeueResult(tq)
            IN  /\ tq' = d.tq
                /\ tq_log' = tq_log \o TqTaken(tq, d.tq, d.item)
                /\ UNCHANGED wk_stop
                /\ IF d.item = None
                   THEN /\ wk_pc' = WkPc("sleep_empty", None, 0)
                        /\ UNCHANGED wk_hist
                   ELSE /\ wk_pc' = WkPc("first", d.item, 0)
                        /\ wk_hist' = WkHist(d.item, 1, <<>>, wk.results)
    /\ UNCHANGED <<tq_enqueued, wk, wk_now, wk_rec, WkOthers>>

\* the 10 ms sleep on an empty queue is over
WkWake ==
    /\ wk_pc.at = "sleep_empty"
    /\ wk_pc' = WkPc("loop", None, 0)
    /\ UNCHANGED <<tq, tq_enqueued, wk, wk_now, wk_hist, wk_rec, tq_log, wk_stop, WkOthers>>

\* the first attempt at the current task ends, after d seconds: record its
\* result, or enter __handle_task_failure up to its first backoff sleep
WkFirstDone(outcome, d) ==
    /\ wk_pc.at = "first"
    /\ wk_now + d <= MaxWkNow
    /\ wk_now' = wk_now + d
    /\ IF outcome = "return"
       THEN /\ wk' = WkRecord(wk, wk_pc.task[1], wk_now')
            /\ wk_rec' = Append(wk_rec, WkTaskResult(wk_now', wk_pc.task[1]))
            /\ wk_pc' = WkPc("loop", None, 0)
            /\ UNCHANGED wk_hist
       ELSE /\ IF 0 < wk.max_retries
               THEN /\ wk_pc' = WkPc("backoff", wk_pc.task, 0)
                    /\ wk_hist' = [wk_hist EXCEPT !.sleeps = Append(@, WkBackoff(0))]
               ELSE /\ wk_pc' = WkPc("loop", None, 0)
                    /\ UNCHANGED wk_hist
            /\ UNCHANGED <<wk, wk_rec>>
    /\ UNCHANGED <<tq, tq_enqueued, tq_log, wk_stop, WkOthers>>

\* the backoff sleep is over: the task is invoked again
WkBackoffDone ==
    /\ wk_pc.at = "backoff"
    /\ wk_pc' = [wk_pc EXCEPT !.at = "retry"]
    /\ wk_hist' = [wk_hist EXCEPT !.invocations = @ + 1]
    /\ UNCHANGED <<tq, tq_enqueued, wk, wk_now, wk_rec, tq_log, wk_stop, WkOthers>>

\* a re-attempt ends, after d seconds: record and break, or count the retry
\* and sleep again while retries < max_retries
WkRetryDoneMut(outcome, d) ==
    /\ wk_pc.at = "retry"
    /\ wk_now + d <= MaxWkNow
    /\ wk_now' = wk_now + d
    /\ IF outcome = "return"
       THEN /\ wk' = WkRecord(wk, wk_pc.task[1], wk_now')
            /\ wk_rec' = Append(wk_rec, WkTaskResult(wk_now', wk_pc.task[1]))
            /\ wk_pc' = WkPc("loop", None, 0)
            /\ UNCHANGED wk_hist
       ELSE /\ IF wk_pc.retries + 1 <= wk.max_retries
               THEN /\ wk_pc' = WkPc("backoff", wk_pc.task, wk_pc.retries + 1)
                    /\ wk_hist' = [wk_hist EXCEPT
                                     !.sleeps = Append(@, WkBackoff(wk_pc.retries + 1))]
               ELSE /\ wk_pc' = WkPc("loop", None, 0)
                    /\ UNCHANGED wk_hist
            /\ UNCHANGED <<wk, wk_rec>>
    /\ UNCHANGED <<tq, tq_enqueued, tq_log, wk_stop, WkOthers>>
WkRetryDone(outcome, d) ==
    /\ wk_pc.at = "retry"
    /\ wk_now + d <= MaxWkNow
    /\ wk_now' = wk_now + d
    /\ IF outcome = "return"
       THEN /\ wk' = WkRecord(wk, wk_pc.task[1], wk_now')
            /\ wk_rec' = Append(wk_rec, WkTaskResult(wk_now', wk_pc.task[1]))
            /\ wk_pc' = WkPc("loop", None, 0)
            /\ UNCHANGED wk_hist
       ELSE /\ IF wk_pc.retries + 1 < wk.max_retries
               THEN /\ wk_pc' = WkPc("backoff", wk_pc.task, wk_pc.retries + 1)
                    /\ wk_hist' = [wk_hist EXCEPT
                                     !.sleeps = Append(@, WkBackoff(wk_pc.retries + 1))]
               ELSE /\ wk_pc' = WkPc("loop", None, 0)
                    /\ UNCHANGED wk_hist
            /\ UNCHANGED <<wk, wk_rec>>
    /\ UNCHANGED <<tq, tq_enqueued, tq_log, wk_stop, WkOthers>>

WkStep ==
    \/ \E p \in 0..1 : TqEnqueue(p)
    \/ WkExecuteTasks
    \/ WkStop
    \/ WkLoop
    \/ WkWake
    \/ \E o \in WkOutcomes, d \in 0..1 : WkFirstDone(o, d)
    \/ WkBackoffDone
    \/ \E o \in WkOutcomes, d \in 0..1 : WkRetryDone(o, d)

\* the component at rest, for the specifications of the other components
WkIdle ==
    /\ tq = TqNew(1)
    /\ tq_enqueued = 0
    /\ wk = WkNew(1, 1)
    /\ wk_pc = WkPc("idle", None, 0)
    /\ wk_now = 0
    /\ wk_hist = WkHist(None, 0, <<>>, <<>>)
    /\ wk_rec = <<>>
    /\ tq_log = <<>>
    /\ wk_stop = FALSE

(***************************************************************************)
(* retry decorator                                                         *)
(***************************************************************************)
\* max_retries, delay (in tenths of a second) and exponential_backoff
RtMaxRetries == {0, 1, 2, 3}
RtDelays == {1, 2}
\* the kinds of error the wrapped function raises, and the exceptions tuples
RtKinds == {"ValueError", "KeyError"}
RtExceptions == { {"ValueError"}, {"ValueError", "KeyError"} }
\* what one invocation of the wrapped function does
RtOpOutcomes == {"return"} \cup RtKinds

\* retry(...)(func): the wrapper with its settings, not running
RtNew(max_retries, delay, exponential_backoff, exceptions) ==
    [ max_retries |-> max_retries, delay |-> delay,
      exponential_backoff |-> exponential_backoff, exceptions |-> exceptions,
      at |-> "idle", attempt |-> 0, current_delay |-> delay ]

RtHist(invocations, raised, sleeps, result, error) ==
    [invocations |-> invocations, raised |-> raised, sleeps |-> sleeps,
     result |-> result, error |-> error]

\* except exceptions: does the clause catch an error of this kind
RtCatchesMut(r, kind) == TRUE
RtCatches(r, kind) == kind \in r.exceptions

\* the wrapper after func returned or raised in attempt r.attempt: it returns,
\* re-raises, or sleeps for current_delay before the next attempt
RtAfterOpMut(r, outcome) ==
    IF outcome = "return" THEN [r EXCEPT !.at = "returned"]
    ELSE IF RtCatches(r, outcome)
    THEN IF r.attempt + 1 >= r.max_retries
         THEN [r EXCEPT !.at = "raised"]
         ELSE [r EXCEPT !.at = "sleep",
                        !.current_delay = IF r.exponential_backoff THEN @ * 2 ELSE @]
    ELSE [r EXCEPT !.at = "raised"]
RtAfterOp(r, outcome) ==
    IF outcome = "return" THEN [r EXCEPT !.at = "returned"]
    ELSE IF RtCatches(r, outcome)
    THEN IF r.attempt = r.max_retries
         THEN [r EXCEPT !.at = "raised"]
         ELSE [r EXCEPT !.at = "sleep",
                        !.current_delay = IF r.exponential_backoff THEN @ * 2 ELSE @]
    ELSE [r EXCEPT !.at = "raised"]

RtInit ==
    /\ \E n \in RtMaxRetries, d \in RtDelays, b \in BOOLEAN, k \in RtExceptions :
         rt = RtNew(n, d, b, k)
    /\ rt_hist = RtHist(0, <<>>, <<>>, None, None)

\* the wrapper is called: current_delay = delay, attempt 0 invokes func
RtCall ==
    /\ rt.at \in {"idle", "returned", "raised"}
    /\ rt' = [rt EXCEPT !.at = "in_func", !.attempt = 0, !.current_delay = rt.delay]
    /\ rt_hist' = RtHist(1, <<>>, <<>>, None, None)
    /\ UNCHANGED RtOthers

\* the running invocation of func ends
RtFuncDone(outcome) ==
    /\ rt.at = "in_func"
    /\ rt' = RtAfterOp(rt, outcome)
    /\ rt_hist' =
         [rt_hist EXCEPT
            !.raised = IF outcome = "return" THEN @ ELSE Append(@, outcome),
            !.result = IF rt'.at = "returned" THEN <<rt_hist.invocations>> ELSE @,
            !.error = IF rt'.at = "raised"
                      THEN <<[kind |-> outcome, invocation |-> rt_hist.invocations]>>
                      ELSE @,
            !.sleeps = IF rt'.at = "sleep" THEN Append(@, rt.current_delay) ELSE @]
    /\ UNCHANGED RtOthers

\* time.sleep returns: the next attempt invokes func
RtSleepDone ==
    /\ rt.at = "sleep"
    /\ rt' = [rt EXCEPT !.at = "in_func", !.attempt = @ + 1]
    /\ rt_hist' = [rt_hist EXCEPT !.invocations = @ + 1]
    /\ UNCHANGED RtOthers

RtStep ==
    \/ RtCall
    \/ \E o \in RtOpOutcomes : RtFuncDone(o)
    \/ RtSleepDone

\* the component at rest, for the specifications of the other components
RtIdle ==
    /\ rt = RtNew(0, 1, FALSE, {"ValueError"})
    /\ rt_hist = RtHist(0, <<>>, <<>>, None, None)

(***************************************************************************)
(* RequestHedging.fetch_data                                               *)
(***************************************************************************)
\* the attempt tasks t1 and t2
HgAttempts == {1, 2}
\* how a do_request task ends on its own
HgAttemptOutcomes == {"ok", "failed"}

\* a fetch_data call not yet made
HgNew ==
    [ at |-> "idle", t |-> [i \in HgAttempts |-> "none"],
      other |-> 0, expired |-> FALSE, outcome |-> None ]
HgHist(created, late) == [created |-> created, late |-> late]

HgDone(h) == {i \in HgAttempts : h.t[i] \in HgAttemptOutcomes}
HgPending(h) == {i \in HgAttempts : h.t[i] = "pending"}

\* t.cancel() on each task of a set: a pending task is cancelled, a finished
\* one is left as it is
HgCancel(h, tasks) ==
    [h EXCEPT !.t = [i \in HgAttempts |->
                        IF i \in tasks /\ h.t[i] = "pending" THEN "cancelled" ELSE h.t[i]]]

\* the call ends: return await task, or raise
HgReturnAwait(h, task) ==
    [h EXCEPT !.at = "ended",
              !.outcome = IF h.t[task] = "ok"
                          THEN <<[kind |-> "result", of |-> task]>>
                          ELSE <<[kind |-> "error", of |-> task]>>]
HgRaiseTimeout(h) ==
    [h EXCEPT !.at = "ended", !.outcome = <<[kind |-> "Timeout", of |-> 0]>>]

\* after the first wait (timeout = delay): t1 is done and awaited, or t2 is
\* created and the time left is computed
HgAfterWait1(h) ==
    IF h.t[1] \in HgAttemptOutcomes
    THEN HgReturnAwait(h, 1)
    ELSE LET both == [h EXCEPT !.t[2] = "pending"]
         IN  IF h.expired
             THEN HgRaiseTimeout(HgCancel(both, {1, 2}))
             ELSE [both EXCEPT !.at = "wait2"]

\* after the second wait (FIRST_COMPLETED, timeout = remaining), with winner
\* the task done.pop() gave; winner = 0 stands for an empty done set
HgAfterWait2Mut(h, winner) ==
    IF winner = 0
    THEN HgRaiseTimeout(HgCancel(h, HgPending(h)))
    ELSE IF h.t[winner] = "failed"
    THEN IF HgPending(h) # {}
         THEN [h EXCEPT !.at = "await_other",
                        !.other = CHOOSE i \in HgPending(h) : TRUE]
         ELSE HgReturnAwait(h, winner)
    ELSE HgReturnAwait(h, winner)
HgAfterWait2(h, winner) ==
    IF winner = 0
    THEN HgRaiseTimeout(HgCancel(h, HgPending(h)))
    ELSE IF h.t[winner] = "failed"
    THEN IF HgPending(h) # {}
         THEN [h EXCEPT !.at = "await_other",
                        !.other = CHOOSE i \in HgPending(h) : TRUE]
         ELSE HgReturnAwait(h, winner)
    ELSE HgReturnAwait(HgCancel(h, HgPending(h)), winner)

HgInit ==
    /\ hg = HgNew
    /\ hg_hist = HgHist(0, {})

\* fetch_data is called: t1 is created and the call waits for it up to delay
HgFetchData ==
    /\ hg.at \in {"idle", "ended", "cancelled"}
    /\ hg' = [HgNew EXCEPT !.at = "wait1", !.t[1] = "pending"]
    /\ hg_hist' = HgHist(1, {})
    /\ UNCHANGED HgOthers

\* an attempt task finishes on its own while fetch_data is suspended
HgAttemptDone(i, outcome) ==
    /\ hg.at \in {"wait1", "wait2", "await_other", "cancelled"}
    /\ hg.t[i] = "pending"
    /\ hg' = [hg EXCEPT !.t[i] = outcome]
    /\ hg_hist' = [hg_hist EXCEPT !.late = IF hg.expired THEN @ \cup {i} ELSE @]
    /\ UNCHANGED HgOthers

\* the overall deadline, self.timeout seconds after the start, passes
HgDeadline ==
    /\ hg.at \in {"wait1", "wait2", "await_other"}
    /\ ~hg.expired
    /\ hg' = [hg EXCEPT !.expired = TRUE]
    /\ UNCHANGED <<hg_hist, HgOthers>>

\* the first wait returns, because t1 is done or because delay has passed
HgWait1Returns ==
    /\ hg.at = "wait1"
    /\ hg' = HgAfterWait1(hg)
    /\ hg_hist' = [hg_hist EXCEPT !.created = IF hg'.t[2] # "none" THEN 2 ELSE @]
    /\ UNCHANGED HgOthers

\* the second wait returns: some task is done, or the time left has run out
HgWait2Returns ==
    /\ hg.at = "wait2"
    /\ IF HgDone(hg) # {}
       THEN \E winner \in HgDone(hg) : hg' = HgAfterWait2(hg, winner)
       ELSE hg.expired /\ hg' = HgAfterWait2(hg, 0)
    /\ UNCHANGED <<hg_hist, HgOthers>>

\* return await other, finally other.cancel()
HgOtherReturns ==
    /\ hg.at = "await_other"
    /\ hg.t[hg.other] \in HgAttemptOutcomes
    /\ hg' = HgReturnAwait(hg, hg.other)
    /\ UNCHANGED <<hg_hist, HgOthers>>

\* the caller cancels the suspended call: CancelledError is raised at the
\* await it stands at; asyncio.wait leaves the tasks it waits for alone, a
\* task awaited directly is cancelled with the call
HgCallerCancels ==
    /\ hg.at \in {"wait1", "wait2", "await_other"}
    /\ hg' = [(IF hg.at = "await_other" THEN HgCancel(hg, {hg.other}) ELSE hg)
                EXCEPT !.at = "cancelled"]
    /\ UNCHANGED <<hg_hist, HgOthers>>

HgStep ==
    \/ HgFetchData
    \/ \E i \in HgAttempts, o \in HgAttemptOutcomes : HgAttemptDone(i, o)
    \/ HgDeadline
    \/ HgWait1Returns
    \/ HgWait2Returns
    \/ HgOtherReturns
    \/ HgCallerCancels

\* the component at rest, for the specifications of the other components
HgIdle ==
    /\ hg = HgNew
    /\ hg_hist = HgHist(0, {})

(***************************************************************************)
(* Timeout decorator                                                       *)
(***************************************************************************)
\* the fallback a Timeout is built with: none, a plain function, a coroutine
\* function
ToFallbacks == {"none", "sync", "async"}
\* the positional argument a call is made with
ToArgs == {1, 2, 3}
\* how the wrapped coroutine ends on its own: it returns, or it raises
ToOpOutcomes == {"return", "ValueError", "TimeoutError"}
\* the deadlines a Timeout is built with, in clock ticks
ToSeconds == {1, 2}

\* Timeout(seconds, fallback)(func): the wrapper, not running
ToNew(seconds, fallback) ==
    [ seconds |-> seconds, fallback |-> fallback, at |-> "idle", args |-> 0,
      op |-> "none", elapsed |-> 0, outcome |-> None ]
ToHist(expired, fallback_calls) == [expired |-> expired, fallback_calls |-> fallback_calls]

ToReturn(t, by, value) ==
    [t EXCEPT !.at = "ended", !.outcome = <<[kind |-> "result", by |-> by, value |-> value]>>]
ToRaise(t, error) ==
    [t EXCEPT !.at = "ended", !.outcome = <<[kind |-> "error", by |-> "op", value |-> error]>>]

\* except asyncio.TimeoutError: call the fallback with the original inputs and
\* return its value, awaiting it first when it is a coroutine; re-raise without
\* a fallback
ToOnTimeoutErrorMut(t) == ToRaise(t, "TimeoutError")
ToOnTimeoutError(t) ==
    IF t.fallback = "none" THEN ToRaise(t, "TimeoutError")
    ELSE IF t.fallback = "async" THEN [t EXCEPT !.at = "in_fallback"]
    ELSE ToReturn(t, "fallback", t.args)

ToInit ==
    /\ \E s \in ToSeconds, f \in ToFallbacks : to = ToNew(s, f)
    /\ to_hist = ToHist(FALSE, <<>>)

\* wrapper(arg) is called: func(arg) runs under asyncio.wait_for
ToCall(arg) ==
    /\ to.at \in {"idle", "ended"}
    /\ to' = [ToNew(to.seconds, to.fallback) EXCEPT !.at = "in_op", !.args = arg, !.op = "running"]
    /\ to_hist' = ToHist(FALSE, <<>>)
    /\ UNCHANGED ToOthers

\* time passes while the wrapped coroutine runs
ToTick ==
    /\ to.at = "in_op"
    /\ to.elapsed < to.seconds
    /\ to' = [to EXCEPT !.elapsed = @ + 1]
    /\ UNCHANGED <<to_hist, ToOthers>>

\* the wrapped coroutine ends before wait_for's deadline fires
ToOpDone(outcome) ==
    /\ to.at = "in_op"
    /\ LET done == [to EXCEPT !.op = outcome]
       IN  /\ to' = IF outcome = "return" THEN ToReturn(done, "op", to.args)
                    ELSE IF outcome = "TimeoutError" THEN ToOnTimeoutError(done)
                    ELSE ToRaise(done, outcome)
           /\ to_hist' = [to_hist EXCEPT
                            !.fallback_calls =
                                 IF outcome = "TimeoutError" /\ to.fallback # "none"
                                 THEN Append(@, to.args) ELSE @]
    /\ UNCHANGED ToOthers

\* the deadline expires first: wait_for cancels the coroutine and raises
\* TimeoutError
ToDeadline ==
    /\ to.at = "in_op"
    /\ to.elapsed = to.seconds
    /\ to' = ToOnTimeoutError([to EXCEPT !.op = "cancelled"])
    /\ to_hist' = [to_hist EXCEPT
                     !.expired = TRUE,
                     !.fallback_calls = IF to.fallback # "none"
                                        THEN Append(@, to.args) ELSE @]
    /\ UNCHANGED ToOthers

\* the awaited coroutine of an async fallback returns
ToFallbackDone ==
    /\ to.at = "in_fallback"
    /\ to' = ToReturn(to, "fallback", to.args)
    /\ UNCHANGED <<to_hist, ToOthers>>

ToStep ==
    \/ \E a \in ToArgs : ToCall(a)
    \/ \E o \in ToOpOutcomes : ToOpDone(o)
    \/ ToTick
    \/ ToDeadline
    \/ ToFallbackDone

\* the component at rest, for the specifications of the other components
ToIdle ==
    /\ to = ToNew(1, "none")
    /\ to_hist = ToHist(FALSE, <<>>)

(***************************************************************************)
(* LeastConnectionsLoadBalancing                                           *)
(***************************************************************************)
\* the servers dict a strategy is built with, as its keys in insertion order
LcPools == { <<"A">>, <<"A", "B">> }
LcMaxConnections == {1, 2}

\* __init__, for the max_connections of each server
LcNew(pool, max_connections) ==
    [ servers |-> [k \in {pool[i] : i \in DOMAIN pool} |-> RrServer(max_connections[k])],
      order |-> pool ]

\* the for loop of __next__ over self.servers.items(); min_connection starts
\* as float("inf"), here None
RECURSIVE LcNextLoop(_, _, _, _)
LcNextLoop(l, i, min_connection, res) ==
    IF i > Len(l.order) THEN res
    ELSE LET server_key == l.order[i]
             server == l.servers[server_key]
         IN  IF min_connection = None \/ server.active_connections < min_connection[1]
             THEN LcNextLoop(l, i + 1, <<server.active_connections>>, server_key)
             ELSE LcNextLoop(l, i + 1, min_connection, res)

\* __next__
LcNextResult(l) == LcNextLoop(l, 1, None, "")

\* handle_request after the send has completed with outcome: the except and
\* finally blocks
LcFinishResult(l, server_key, outcome) ==
    LET sv == l.servers[server_key]
        sucess == IF outcome = "response" THEN sv.sucess + 1 ELSE sv.sucess
        failure == IF outcome = "raise" THEN sv.failure + 1 ELSE sv.failure
        total == sucess + failure
        sucess_rate == IF total > 0 THEN Round5(sucess, total) ELSE sv.sucess_rate
    IN  [l EXCEPT !.servers[server_key] =
                      [sv EXCEPT !.active_connections = @ - 1,
                                 !.sucess = sucess, !.failure = failure,
                                 !.sucess_rate = sucess_rate,
                                 !.total_requests = @ + 1,
                                 !.healthy = (sucess_rate > 50000)]]

LcLast(op, key, pre) == [op |-> op, key |-> key, pre |-> pre]
LcKeys(l) == DOMAIN l.servers
LcStarted == LET total[S \in SUBSET LcKeys(lc)] ==
                     IF S = {} THEN 0
                     ELSE LET k == CHOOSE x \in S : TRUE
                          IN  lc.servers[k].total_requests + lc_inflight[k]
                                  + total[S \ {k}]
             IN  total[LcKeys(lc)]

LcInit ==
    /\ \E pool \in LcPools :
         \E m \in [{pool[i] : i \in DOMAIN pool} -> LcMaxConnections] : lc = LcNew(pool, m)
    /\ lc_inflight = [k \in LcKeys(lc) |-> 0]
    /\ lc_last = LcLast("init", "", lc)

\* a direct next(strategy) call
LcNext ==
    /\ lc_last' = LcLast("next", LcNextResult(lc), lc)
    /\ UNCHANGED <<lc, lc_inflight, LcOthers>>

\* handle_request up to its suspension at the send: next(self), the assert,
\* active_connections += 1
LcHandleStart ==
    /\ LcStarted < MaxLcRequests
    /\ LET server_key == LcNextResult(lc)
           next_server == lc.servers[server_key]
       IN  IF next_server.active_connections < next_server.max_connections
           THEN /\ lc' = [lc EXCEPT !.servers[server_key].active_connections = @ + 1]
                /\ lc_inflight' = [lc_inflight EXCEPT ![server_key] = @ + 1]
                /\ lc_last' = LcLast("handle_start", server_key, lc)
           ELSE /\ lc_last' = LcLast("AssertionError", server_key, lc)
                /\ UNCHANGED <<lc, lc_inflight>>
    /\ UNCHANGED LcOthers

\* a suspended handle_request resumes: the send returned or raised
LcHandleFinish(server_key, outcome) ==
    /\ server_key \in LcKeys(lc)
    /\ lc_inflight[server_key] > 0
    /\ lc' = LcFinishResult(lc, server_key, outcome)
    /\ lc_inflight' = [lc_inflight EXCEPT ![server_key] = @ - 1]
    /\ lc_last' = LcLast("handle_request", server_key, lc)
    /\ UNCHANGED LcOthers

LcStep ==
    \/ LcNext
    \/ LcHandleStart
    \/ \E k \in {"A", "B"}, o \in RrSendOutcomes : LcHandleFinish(k, o)

\* the component at rest, for the specifications of the other components
LcIdle ==
    /\ lc = LcNew(<<"A">>, [k \in {"A"} |-> 1])
    /\ lc_inflight = [k \in LcKeys(lc) |-> 0]
    /\ lc_last = LcLast("init", "", lc)

(***************************************************************************)
(* LeastTime load-balancing strategy.  Times are in hundred-thousandths    *)
(* of a second, the precision metadata.latency is rounded to.              *)
(***************************************************************************)
\* the servers dict a strategy is built with, as its keys in insertion order
LtPools == { <<"A">>, <<"A", "B">> }
LtMaxConnections == {1, 2}
\* end - start of a request
LtElapsed == {2, 4}

\* ServerBuilder.build with name = key (as from_config does); the speeds list
\* is kept as its length
LtServer(name, max_connections) ==
    [ name |-> name, active_connections |-> 0, healthy |-> TRUE, weight |-> 1,
      max_connections |-> max_connections,
      total_requests |-> 0, sucess |-> 0, failure |-> 0, sucess_rate |-> 100000,
      speeds |-> 0, total_time |-> 0, latency |-> 0 ]

\* LeastTime.__init__; float("inf") and the absent key are None
LtNew(pool, max_connections) ==
    [ servers |-> [k \in {pool[i] : i \in DOMAIN pool} |-> LtServer(k, max_connections)],
      healthy |-> RrHealthy,
      min_response_time |-> None,
      min_response_time_key |-> None ]

LtKeys(l) == DOMAIN l.servers

\* __next__: the keys a call can return (random.choice draws one of them)
LtNextChoicesMut(l) ==
    IF l.min_response_time_key = None
    THEN LtKeys(l)
    ELSE {l.min_response_time_key[1]}
LtNextChoices(l) ==
    IF l.min_response_time_key = None
    THEN LET healthy_servers == {k \in LtKeys(l) : l.servers[k].healthy}
         IN  IF healthy_servers = {} THEN LtKeys(l) ELSE healthy_servers
    ELSE {l.min_response_time_key[1]}

\* round(total_time / len(speeds), 5)
LtLatency(total_time, speeds) == (2 * total_time + speeds) \div (2 * speeds)

\* LeastTime.finally_after_request
LtFinallyAfterRequest(l, server) ==
    IF (l.min_response_time = None \/ server.latency < l.min_response_time[1])
       /\ server.healthy
    THEN [l EXCEPT !.min_response_time = <<server.latency>>,
                   !.min_response_time_key = <<server.name>>]
    ELSE l

\* handle_request after the send has completed with outcome after elapsed:
\* the except and finally blocks; finally_after_request ends in the
\* TypeError of its super() call, after it has updated the minimum
LtFinishResult(l, server_key, outcome, elapsed) ==
    LET counted == RrFinishResult(l, server_key, outcome)
        sv == counted.rr.servers[server_key]
        total_time == sv.total_time + elapsed
        timed == [sv EXCEPT !.speeds = @ + 1, !.total_time = total_time,
                            !.latency = LtLatency(total_time, sv.speeds + 1)]
        done == [counted.rr EXCEPT !.servers[server_key] = timed]
    IN  [ lt |-> IF timed.sucess > 0 THEN LtFinallyAfterRequest(done, timed) ELSE done,
          result |-> counted.result ]

LtLast(op, key, pre, result) == [op |-> op, key |-> key, pre |-> pre, result |-> result]
LtStarted == LET total[S \in SUBSET LtKeys(lt)] ==
                     IF S = {} THEN 0
                     ELSE LET k == CHOOSE x \in S : TRUE
                          IN  lt.servers[k].total_requests + lt_inflight[k]
                                  + total[S \ {k}]
             IN  total[LtKeys(lt)]

LtInit ==
    /\ \E pool \in LtPools, m \in LtMaxConnections : lt = LtNew(pool, m)
    /\ lt_inflight = [k \in LtKeys(lt) |-> 0]
    /\ lt_last = LtLast("init", "", lt, "none")

\* a direct next(strategy) call
LtNext ==
    /\ \E server_key \in LtNextChoices(lt) :
          lt_last' = LtLast("next", server_key, lt, server_key)
    /\ UNCHANGED <<lt, lt_inflight, LtOthers>>

\* handle_request up to its suspension at the send: next(self), the assert,
\* active_connections += 1
LtHandleStart ==
    /\ LtStarted < MaxLtRequests
    /\ \E server_key \in LtNextChoices(lt) :
          LET next_server == lt.servers[server_key]
          IN  IF next_server.active_connections < next_server.max_connections
              THEN /\ lt' = [lt EXCEPT !.servers[server_key].active_connections = @ + 1]
                   /\ lt_inflight' = [lt_inflight EXCEPT ![server_key] = @ + 1]
                   /\ lt_last' = LtLast("handle_start", server_key, lt, server_key)
              ELSE /\ lt_last' = LtLast("handle_request", server_key, lt, "AssertionError")
                   /\ UNCHANGED <<lt, lt_inflight>>
    /\ UNCHANGED LtOthers

\* a suspended handle_request resumes: the send returned or raised
LtHandleFinish(server_key, outcome, elapsed) ==
    /\ server_key \in LtKeys(lt)
    /\ lt_inflight[server_key] > 0
    /\ LET r == LtFinishResult(lt, server_key, outcome, elapsed)
       IN  /\ lt' = r.lt
           /\ lt_last' = LtLast("handle_request", server_key, lt, r.result)
    /\ lt_inflight' = [lt_inflight EXCEPT ![server_key] = @ - 1]
    /\ UNCHANGED LtOthers

LtStep ==
    \/ LtNext
    \/ LtHandleStart
    \/ \E k \in {"A", "B"}, o \in RrSendOutcomes, e \in LtElapsed :
          LtHandleFinish(k, o, e)

\* the component at rest, for the specifications of the other components
LtIdle ==
    /\ lt = LtNew(<<"A">>, 1)
    /\ lt_inflight = [k \in LtKeys(lt) |-> 0]
    /\ lt_last = LtLast("init", "", lt, "none")

(***************************************************************************)
(* LoadBalancer.add_server on a balancer whose strategy is RoundRobin or   *)
(* WeightedRoundRobin.  The facade and its strategy hold the same servers  *)
(* dict, so the strategy's servers is what add_server assigns into.        *)
(***************************************************************************)
\* the keys add_server is called with: keys the pool does not hold yet
LbNewKeys == {"s4"}

\* add_server: self.servers[server_key] = server
LbAddServerResult(b, server_key, server) ==
    [b EXCEPT !.servers = DictPut(@, server_key, server)]

\* add_server(server_key, server) on a round_robin balancer
LbAddServerRr(server_key, max_connections) ==
    /\ server_key \notin RrKeys(rr)
    /\ rr' = LbAddServerResult(rr, server_key, RrServer(max_connections))
    /\ rr_inflight' = DictPut(rr_inflight, server_key, 0)
    /\ rr_last' = RrLast("add_server", server_key, "none")
    /\ rr_hist' = <<>>
    /\ UNCHANGED RrOthers

\* add_server(server_key, server) on a weighted_round_robin balancer
LbAddServerWrr(server_key, max_connections) ==
    /\ server_key \notin WrrKeys(wrr)
    /\ wrr' = LbAddServerResult(wrr, server_key, RrServer(max_connections))
    /\ wrr_inflight' = DictPut(wrr_inflight, server_key, 0)
    /\ wrr_last' = WrrLast("add_server", wrr, server_key)
    /\ UNCHANGED <<wrr_run, WrrOthers>>

LbStepRr ==
    \/ RrStep
    \/ \E k \in LbNewKeys, m \in RrMaxConnections : LbAddServerRr(k, m)

LbStepWrr ==
    \/ WrrStep
    \/ \E k \in LbNewKeys, m \in WrrMaxConnections : LbAddServerWrr(k, m)

(***************************************************************************)
(* Specifications, one per component.                                      *)
(***************************************************************************)
InitCB == CbInit /\ SwIdle /\ FwIdle /\ ChIdle /\ RrIdle /\ WrrIdle /\ WkIdle /\ RtIdle /\ HgIdle /\ ToIdle /\ LcIdle /\ CcIdle /\ LtIdle
NextCB == CbNext
SpecCB == InitCB /\ [][NextCB]_vars

InitCBC == CcInit /\ CbIdle /\ SwIdle /\ FwIdle /\ ChIdle /\ RrIdle /\ WrrIdle /\ WkIdle /\ RtIdle /\ HgIdle /\ ToIdle /\ LcIdle /\ LtIdle
NextCBC == CcNext
SpecCBC == InitCBC /\ [][NextCBC]_vars

InitSW == SwInit /\ CbIdle /\ FwIdle /\ ChIdle /\ RrIdle /\ WrrIdle /\ WkIdle /\ RtIdle /\ HgIdle /\ ToIdle /\ LcIdle /\ CcIdle /\ LtIdle
NextSW == SwNext
SpecSW == InitSW /\ [][NextSW]_vars

InitFW == FwInit /\ CbIdle /\ SwIdle /\ ChIdle /\ RrIdle /\ WrrIdle /\ WkIdle /\ RtIdle /\ HgIdle /\ ToIdle /\ LcIdle /\ CcIdle /\ LtIdle
NextFW == FwNext
SpecFW == InitFW /\ [][NextFW]_vars

InitCH == ChInit /\ CbIdle /\ SwIdle /\ FwIdle /\ RrIdle /\ WrrIdle /\ WkIdle /\ RtIdle /\ HgIdle /\ ToIdle /\ LcIdle /\ CcIdle /\ LtIdle
NextCH == ChNext
SpecCH == InitCH /\ [][NextCH]_vars

InitCHD == ChDbInit /\ CbIdle /\ SwIdle /\ FwIdle /\ RrIdle /\ WrrIdle /\ WkIdle /\ RtIdle /\ HgIdle /\ ToIdle /\ LcIdle /\ CcIdle /\ LtIdle
NextCHD == ChDbNext
SpecCHD == InitCHD /\ [][NextCHD]_vars

InitMV == MvInit /\ CbIdle /\ SwIdle /\ FwIdle /\ RrIdle /\ WrrIdle /\ WkIdle /\ RtIdle /\ HgIdle /\ ToIdle /\ LcIdle /\ CcIdle /\ LtIdle
NextMV == MvNext
SpecMV == InitMV /\ [][NextMV]_vars

\* one of the two rotation strategies is in use; the other one stays at rest
RrAtRest == rr_last.op = "init" /\ rr = RrNew(<<"s1">>, 1, RrHealthy, 0)
WrrAtRest == wrr_last.op = "init" /\ wrr = WrrNew(<< <<"A", 1>> >>, 1, 0)
InitROT ==
    /\ \/ (RrInit /\ WrrIdle)
       \/ (RrIdle /\ WrrInit)
    /\ CbIdle /\ SwIdle /\ FwIdle /\ ChIdle /\ WkIdle /\ RtIdle /\ HgIdle /\ ToIdle /\ LcIdle /\ CcIdle /\ LtIdle
NextROT ==
    \/ (WrrAtRest /\ RrStep)
    \/ (RrAtRest /\ WrrStep)
SpecROT == InitROT /\ [][NextROT]_vars

\* a balancer on one of the two rotation strategies, with add_server
InitADD == InitROT
NextADD ==
    \/ (WrrAtRest /\ LbStepRr)
    \/ (RrAtRest /\ LbStepWrr)
SpecADD == InitADD /\ [][NextADD]_vars

InitRR == RrInit /\ CbIdle /\ SwIdle /\ FwIdle /\ ChIdle /\ WrrIdle /\ WkIdle /\ RtIdle /\ HgIdle /\ ToIdle /\ LcIdle /\ CcIdle /\ LtIdle
NextRR == RrStep
SpecRR == InitRR /\ [][NextRR]_vars

InitWRR == WrrInit /\ CbIdle /\ SwIdle /\ FwIdle /\ ChIdle /\ RrIdle /\ WkIdle /\ RtIdle /\ HgIdle /\ ToIdle /\ LcIdle /\ CcIdle /\ LtIdle
NextWRR == WrrStep
SpecWRR == InitWRR /\ [][NextWRR]_vars

InitWK == WkInit /\ CbIdle /\ SwIdle /\ FwIdle /\ ChIdle /\ RrIdle /\ WrrIdle /\ RtIdle /\ HgIdle /\ ToIdle /\ LcIdle /\ CcIdle /\ LtIdle
NextWK == WkStep
SpecWK == InitWK /\ [][NextWK]_vars

InitRT == RtInit /\ CbIdle /\ SwIdle /\ FwIdle /\ ChIdle /\ RrIdle /\ WrrIdle /\ WkIdle /\ HgIdle /\ ToIdle /\ LcIdle /\ CcIdle /\ LtIdle
NextRT == RtStep
SpecRT == InitRT /\ [][NextRT]_vars

InitHG == HgInit /\ CbIdle /\ SwIdle /\ FwIdle /\ ChIdle /\ RrIdle /\ WrrIdle /\ WkIdle /\ RtIdle /\ ToIdle /\ LcIdle /\ CcIdle /\ LtIdle
NextHG == HgStep
SpecHG == InitHG /\ [][NextHG]_vars

InitTO == ToInit /\ CbIdle /\ SwIdle /\ FwIdle /\ ChIdle /\ RrIdle /\ WrrIdle /\ WkIdle /\ RtIdle /\ HgIdle /\ LcIdle /\ CcIdle /\ LtIdle
NextTO == ToStep
SpecTO == InitTO /\ [][NextTO]_vars

InitLC == LcInit /\ CbIdle /\ SwIdle /\ FwIdle /\ ChIdle /\ RrIdle /\ WrrIdle /\ WkIdle /\ RtIdle /\ HgIdle /\ ToIdle /\ CcIdle /\ LtIdle
NextLC == LcStep
SpecLC == InitLC /\ [][NextLC]_vars

InitLT == LtInit /\ CbIdle /\ SwIdle /\ FwIdle /\ ChIdle /\ RrIdle /\ WrrIdle /\ WkIdle /\ RtIdle /\ HgIdle /\ ToIdle /\ LcIdle /\ CcIdle
NextLT == LtStep
SpecLT == InitLT /\ [][NextLT]_vars

(***************************************************************************)
(* CircuitBreaker: claims                                                  *)
(***************************************************************************)
CbPre == cb_last.pre
CbPreTotal == CbPre.success + CbPre.error
CbPreHalfTotal == CbPre.half_open_success + CbPre.half_open_error
\* now - opened-at at the moment of the last call (the breaker was Open)
CbPreElapsed == cb_last.now - CbPre.time_opened[1]

\* C1: in Closed, once the counters satisfy error/(success+error) >=
\* failure_rate, the next run() does not invoke the operation, returns
\* (false, none, Open-error), moves to Open recording opened-at, and leaves the
\* closed counters unchanged.
C1_TripOnNextRun ==
    ( /\ cb_last.op = "run"
      /\ CbPre.state = CLOSED_STATE
      /\ CbPreTotal > 0
      /\ CbPre.error * CbPre.failure_rate.den >= CbPre.failure_rate.num * CbPreTotal )
    => ( /\ ~cb_last.invoked
         /\ ~cb_last.ok
         /\ cb_last.err = "open_error"
         /\ cb.state = OPEN_STATE
         /\ cb.time_opened = <<cb_last.now>>
         /\ cb.success = CbPre.success
         /\ cb.error = CbPre.error )

\* C2: reset(), from any state, leaves state = Closed, all four counters 0
\* and opened-at null.
C2_ResetClears ==
    cb_last.op = "reset"
    => ( /\ cb.state = CLOSED_STATE
         /\ cb.success = 0 /\ cb.error = 0
         /\ cb.half_open_success = 0 /\ cb.half_open_error = 0
         /\ cb.time_opened = None )

\* C2 witness: a reset taken in Half-Open with probes counted and opened-at set.
C2_Witness ==
    /\ cb_last.op = "reset"
    /\ CbPre.state = HALF_OPEN_STATE
    /\ CbPreHalfTotal > 0
    /\ CbPre.time_opened # None
    /\ cb.state = CLOSED_STATE

\* C3: while Open with now - opened-at < cooldown a run() is rejected with the
\* Open-state error, does not invoke the operation and changes nothing; once
\* now - opened-at >= cooldown the run() moves to Half-Open, zeroes the half
\* counters and executes this call as the first probe.
C3_Cooldown ==
    ( cb_last.op = "run" /\ CbPre.state = OPEN_STATE )
    => IF CbPreElapsed < CbPre.duration_until_half_opened
       THEN /\ ~cb_last.invoked /\ ~cb_last.ok /\ cb_last.err = "open_error"
            /\ cb = CbPre
       ELSE /\ cb_last.invoked
            /\ cb.state = HALF_OPEN_STATE
            /\ cb.half_open_success = (IF cb_last.f = "return" THEN 1 ELSE 0)
            /\ cb.half_open_error = (IF cb_last.f = "raise" THEN 1 ELSE 0)
            /\ cb_last.ok = (cb_last.f = "return")
            /\ cb.time_opened = CbPre.time_opened
            /\ cb.success = CbPre.success /\ cb.error = CbPre.error

\* C3 witness: a run() exactly at the end of the cooldown, with half counters
\* left over from an earlier probe round, became the first probe.
C3_Witness ==
    /\ cb_last.op = "run"
    /\ CbPre.state = OPEN_STATE
    /\ CbPreElapsed = CbPre.duration_until_half_opened
    /\ CbPreHalfTotal > 0
    /\ cb.state = HALF_OPEN_STATE
    /\ cb.half_open_success + cb.half_open_error = 1

\* C4: in Half-Open, the run() that arrives once half-success + half-failure
\* has reached the probe budget decides on r' = half-failure / probes: if
\* r' <= failure_rate the closed counters are zeroed, the state is Closed and
\* the call is executed in Closed; otherwise the state is Open with a fresh
\* opened-at and the call is rejected without invoking the operation.
C4_ProbeDecision ==
    ( /\ cb_last.op = "run"
      /\ CbPre.state = HALF_OPEN_STATE
      /\ CbPreHalfTotal >= CbPre.open_half_calls )
    => IF CbPre.half_open_error * CbPre.failure_rate.den
            <= CbPre.failure_rate.num * CbPreHalfTotal
       THEN /\ cb_last.invoked
            /\ cb.state = CLOSED_STATE
            /\ cb.success = (IF cb_last.f = "return" THEN 1 ELSE 0)
            /\ cb.error = (IF cb_last.f = "raise" THEN 1 ELSE 0)
            /\ cb_last.ok = (cb_last.f = "return")
       ELSE /\ ~cb_last.invoked /\ ~cb_last.ok /\ cb_last.err = "open_error"
            /\ cb.state = OPEN_STATE
            /\ cb.time_opened = <<cb_last.now>>
            /\ cb.success = CbPre.success /\ cb.error = CbPre.error

\* C4 witness: probes at exactly the threshold rate closed the breaker and the
\* deciding call ran in Closed over zeroed counters.
C4_Witness ==
    /\ cb_last.op = "run"
    /\ CbPre.state = HALF_OPEN_STATE
    /\ CbPreHalfTotal >= CbPre.open_half_calls
    /\ CbPre.half_open_error * CbPre.failure_rate.den
           = CbPre.failure_rate.num * CbPreHalfTotal
    /\ CbPreTotal > 1
    /\ cb.state = CLOSED_STATE
    /\ cb.success + cb.error = 1

\* C4, second case reached: bad probes sent the breaker back to Open later on.
C4_ReopenReached ==
    /\ cb_last.op = "run"
    /\ CbPre.state = HALF_OPEN_STATE
    /\ cb.state = OPEN_STATE
    /\ cb.time_opened # CbPre.time_opened

(***************************************************************************)
(* SlidingWindow: claims                                                   *)
(***************************************************************************)
SwWindowMs == sw.window * UnitMs(sw.unit)

\* the number of admissions of key k stamped within the closed interval [lo, hi]
SwAdmittedIn(k, lo, hi) ==
    Cardinality({j \in DOMAIN sw_admits[k] :
                    lo <= sw_admits[k][j] /\ sw_admits[k][j] <= hi})

\* C5: with a non-decreasing clock, for every key and every instant t, at most
\* limit calls of allow(key) returned true with a timestamp in the closed
\* interval [t - window, t].  The count over [t - window, t] is largest when
\* t - window is the timestamp of an admission, so the instants checked are
\* t = a + window for every admission timestamp a (and every clock value).
C5_AdmissionBound ==
    \A k \in SwKeys :
        /\ \A i \in DOMAIN sw_admits[k] :
              SwAdmittedIn(k, sw_admits[k][i], sw_admits[k][i] + SwWindowMs) <= sw.limit
        /\ SwAdmittedIn(k, sw_now - SwWindowMs, sw_now) <= sw.limit

\* C5 witness: limit 1, an admission stamped exactly now - window, and the
\* allow() at now was denied.
C5_Witness ==
    /\ sw_last.op = "allow"
    /\ sw_last.key \notin sw.blacklist
    /\ sw.limit = 1
    /\ sw_last.result = 0
    /\ sw_last.now = sw_now
    /\ \E i \in DOMAIN sw_admits[sw_last.key] :
          sw_admits[sw_last.key][i] = sw_now - SwWindowMs

(***************************************************************************)
(* FixedWindowCounter: claims                                              *)
(***************************************************************************)
FwPre == fw_last.pre
FwWindowLen == UnitMs(fw.unit)
\* the clock value read by the last call lies outside [start, start + window]
FwOutside ==
    \/ fw_last.now < FwPre.start_window
    \/ fw_last.now > FwPre.start_window + FwWindowLen

\* what the window check of the last call has to leave behind: the map emptied
\* and start = now if the clock was outside the window, both untouched if not
FwResetAsClaimed ==
    IF FwOutside
    THEN /\ fw.start_window = fw_last.now
         /\ \A k \in DOMAIN fw.map :
               k = fw_last.key /\ fw_last.op = "allow" /\ fw.map[k] = 1
         /\ fw_last.op = "allow" => fw_last.result = 1
         /\ fw_last.op = "remaining" => fw_last.result = fw.limit
    ELSE /\ fw.start_window = FwPre.start_window
         /\ DOMAIN FwPre.map \subseteq DOMAIN fw.map
         /\ \A k \in DOMAIN FwPre.map : k # fw_last.key => fw.map[k] = FwPre.map[k]

\* C6 as stated: every allow() and remaining() call resets the window exactly
\* when the clock is outside [start, start + window].
C6_ResetEveryCall ==
    fw_last.op \in {"allow", "remaining"} => FwResetAsClaimed

\* C6 amended: allow() on a key that is not blacklisted, and remaining(), reset
\* the window exactly when the clock is outside [start, start + window] (map
\* emptied and start = now before the call is decided; nothing cleared while
\* the clock is inside); allow() on a blacklisted key never resets the window.
C6_ResetUnlessBlacklisted ==
    /\ ( \/ fw_last.op = "remaining"
         \/ (fw_last.op = "allow" /\ fw_last.key \notin FwPre.blacklist) )
       => FwResetAsClaimed
    /\ (fw_last.op = "allow" /\ fw_last.key \in FwPre.blacklist)
       => (fw.start_window = FwPre.start_window /\ fw.map = FwPre.map)

\* C6 witness: an allow() read a clock value past start + window while other
\* keys had counters; the map was emptied before the call was counted.
C6_Witness ==
    /\ fw_last.op = "allow"
    /\ fw_last.key \notin FwPre.blacklist
    /\ fw_last.now > FwPre.start_window + FwWindowLen
    /\ \E k \in DOMAIN FwPre.map : k # fw_last.key
    /\ DOMAIN fw.map = {fw_last.key}
    /\ fw.start_window = fw_last.now

\* C6, further cases reached: a reset by remaining() after the clock moved
\* backwards, and a call exactly at start + window that reset nothing.
C6_BackwardsReached ==
    /\ fw_last.op = "remaining"
    /\ fw_last.now < FwPre.start_window
    /\ FwPre.map # <<>>
    /\ fw.map = <<>>

C6_BoundaryReached ==
    /\ fw_last.op = "allow"
    /\ fw_last.key \notin FwPre.blacklist
    /\ fw_last.now = FwPre.start_window + FwWindowLen
    /\ FwPre.map # <<>>
    /\ fw.start_window = FwPre.start_window

\* C7: between two window resets, allow(key) on a key that is not blacklisted
\* returns true and increments the key's counter iff the counter is < limit,
\* and otherwise returns false and leaves the counter as it was; the counters
\* of the other keys are not touched, and every counter is <= limit.
C7_FixedWindowLimit ==
    /\ \A k \in DOMAIN fw.map : fw.map[k] <= fw.limit
    /\ ( /\ fw_last.op = "allow"
         /\ fw_last.key \notin FwPre.blacklist
         /\ ~FwOutside )
       => LET key == fw_last.key
              before == DictGet0(FwPre.map, key)
          IN  /\ (fw_last.result = 1) = (before < fw.limit)
              /\ fw_last.result = 1 => fw.map[key] = before + 1
              /\ fw_last.result = 0 => DictGet0(fw.map, key) = before
              /\ \A k \in FwKeys \ {key} :
                    DictGet0(fw.map, k) = DictGet0(FwPre.map, k)

\* C7 witness: a key at its limit was denied inside the window while another
\* key had a counter of its own.
C7_Witness ==
    /\ fw_last.op = "allow"
    /\ fw_last.key \notin FwPre.blacklist
    /\ ~FwOutside
    /\ fw_last.result = 0
    /\ DictGet0(fw.map, fw_last.key) = fw.limit
    /\ \E k \in DOMAIN fw.map : k # fw_last.key /\ fw.map[k] >= 1

(***************************************************************************)
(* ConsistentHashing: claims                                               *)
(***************************************************************************)
ChOwned(c, sv) == c.server_node_mapping[sv].owned
ChIsPartition(c) ==
    /\ \A s1, s2 \in DOMAIN c.server_node_mapping :
          s1 # s2 => ChOwned(c, s1) \cap ChOwned(c, s2) = {}
    /\ UNION {ChOwned(c, sv) : sv \in DOMAIN c.server_node_mapping}
          = 0..(Len(c.ring_nodes) - 1)

\* sum of get_server_capacity(s) over the servers s of the mapping
RECURSIVE ChSumServerCapacity(_, _)
ChSumServerCapacity(c, servers) ==
    IF servers = {} THEN 0
    ELSE LET sv == CHOOSE x \in servers : TRUE
         IN  ChGetServerCapacity(c, sv) + ChSumServerCapacity(c, servers \ {sv})
ChTotalCapacity(c) == ChSumServerCapacity(c, DOMAIN c.server_node_mapping)

\* C8: in every state reachable from the initial build by insert_virtual_node,
\* insert_server and delete_server, the owned-index sets of the servers are
\* pairwise disjoint and their union is {0, ..., |ring| - 1}.
C8_OwnershipPartition == ChIsPartition(ch)

\* C8, where the code departs from it: the partition breaks only in an
\* insert_server() whose new id (the server count) is already in the mapping.
C8_BrokenOnlyByIdReuse ==
    (ChIsPartition(ch_last.pre) /\ ~ChIsPartition(ch))
    => ( /\ ch_last.op = "insert_server"
         /\ ch_last.server \in DOMAIN ch_last.pre.server_node_mapping )

\* C9: in every reachable ring state, a ring with a single vnode included, the
\* sum of get_server_capacity(s) over all servers s of the mapping equals the
\* size of the hash space.
C9_CapacityConservation == ChTotalCapacity(ch) = HashSpace

\* C9, where the code departs from it: the capacities sum to the size of the
\* hash space unless all ring positions coincide (a single vnode included) or
\* ring indices have lost their owner.
C9_FailsOnlyWhenDegenerate ==
    \/ ChTotalCapacity(ch) = HashSpace
    \/ \A i \in DOMAIN ch.ring_nodes : ch.ring_nodes[i] = ch.ring_nodes[1]
    \/ ~ChIsPartition(ch)


(***************************************************************************)
(* Round-robin fairness                                                    *)
(***************************************************************************)
\* how often backend k occurs in positions i..j of the history
RrCount(k, i, j) == Cardinality({p \in i..j : rr_hist[p] = k})

\* C10: over any K consecutive next() calls made while all N backends are
\* healthy and below cap, each call returns a backend and every backend is
\* returned floor(K/N) or ceil(K/N) times, whatever the initial cursor was.
C10_RoundRobinFairness ==
    \A i \in 1..Len(rr_hist) : \A j \in i..Len(rr_hist) :
        LET K == j - i + 1
            N == rr.n
        IN  /\ \A p \in i..j : rr_hist[p] \in RrKeys(rr)
            /\ \A k \in RrKeys(rr) :
                 RrCount(k, i, j) \in {K \div N, (K + N - 1) \div N}

\* three backends, a run of K calls with K not a multiple of N that started
\* from a cursor other than the last position, with requests in flight
C10_Witness ==
    /\ rr.n = 3
    /\ Len(rr_hist) = 5
    /\ rr_hist[1] # "s1"
    /\ rr_last.op = "next"
    /\ \E k \in RrKeys(rr) : rr.servers[k].active_connections > 0

(***************************************************************************)
(* Weighted round-robin claims                                             *)
(***************************************************************************)
\* requests per round of backend k, and the length of one round
WrrRequests(k) ==
    LET i == CHOOSE j \in DOMAIN wrr.ordered_servers : wrr.ordered_servers[j].key = k
    IN  wrr.ordered_servers[i].requests
WrrRoundLen ==
    LET total[S \in SUBSET WrrKeys(wrr)] ==
            IF S = {} THEN 0
            ELSE LET k == CHOOSE x \in S : TRUE
                 IN  WrrRequests(k) + total[S \ {k}]
    IN  total[WrrKeys(wrr)]

\* C11: with all backends healthy and below cap, over one round (and over any
\* whole number of rounds) next() returns backend i exactly weight_i /
\* min_weight times per round; with weights 4, 2, 1 that is 40, 20 and 10
\* times over 70 consecutive calls.
C11_WeightedFairness ==
    (wrr_run.open /\ wrr_run.calls > 0 /\ wrr_run.calls % WrrRoundLen = 0)
        => \A k \in WrrKeys(wrr) :
              wrr_run.counts[k] = (wrr_run.calls \div WrrRoundLen) * WrrRequests(k)

\* what the code does on weights 4, 2, 1 over 70 calls: three calls raise
\* and the others are spread 27 or 28 / 22 or 23 / 17
C11_SeventyCallsObserved ==
    (wrr_run.open /\ wrr_run.calls = 70 /\ WrrKeys(wrr) = {"A", "B", "C"})
        => /\ wrr_run.errors = 3
           /\ wrr_run.counts["A"] \in {27, 28}
           /\ wrr_run.counts["B"] \in {22, 23}
           /\ wrr_run.counts["C"] = 17
C11_SeventyCallsReached ==
    wrr_run.open /\ wrr_run.calls = 70 /\ WrrKeys(wrr) = {"A", "B", "C"}

(***************************************************************************)
(* Selection errors                                                        *)
(***************************************************************************)
\* the pool as the last RoundRobin selection saw it: a direct next() leaves
\* the servers alone, handle_request has since taken one connection on the
\* server it selected
RrPoolAtSelection ==
    IF rr_last.op = "handle_start"
    THEN [rr.servers EXCEPT ![rr_last.key].active_connections = @ - 1]
    ELSE rr.servers
RrSelected ==
    \/ rr_last.op \in {"next", "handle_start"}
    \/ rr_last.op = "handle_request" /\ rr_last.result = "RuntimeError"
RrSelectionExact ==
    RrSelected =>
        LET pool == RrPoolAtSelection
        IN  /\ rr_last.result = "RuntimeError"
                 <=> ~ \E k \in DOMAIN pool : RrEligible(pool[k])
            /\ rr_last.result # "RuntimeError"
                 => rr_last.result \in DOMAIN pool /\ RrEligible(pool[rr_last.result])
WrrSelected == wrr_last.op \in {"next", "handle_start"}
WrrSelectionExact ==
    WrrSelected =>
        /\ wrr_last.result = "RuntimeError" <=> ~ WrrSomeEligible(wrr_last.pre)
        /\ wrr_last.result # "RuntimeError"
             => /\ wrr_last.result \in WrrKeys(wrr_last.pre)
                /\ RrEligible(wrr_last.pre.servers[wrr_last.result])

\* C12: RoundRobin.next() and WeightedRoundRobin.next() raise exactly when no
\* backend is both healthy and below its cap, and otherwise return an
\* eligible backend.
C12_SelectionNeverSpurious == RrSelectionExact /\ WrrSelectionExact

\* what does hold of the weighted strategy: a returned backend is eligible,
\* and with no eligible backend the call raises
C12_WrrReturnsEligible ==
    WrrSelected =>
        /\ ~ WrrSomeEligible(wrr_last.pre) => wrr_last.result = "RuntimeError"
        /\ wrr_last.result # "RuntimeError"
             => RrEligible(wrr_last.pre.servers[wrr_last.result])
\* the round-robin half of C12 on its own
C12_RoundRobinExact == RrSelectionExact
C12_RoundRobinRaised == RrSelected /\ rr_last.result = "RuntimeError"

(***************************************************************************)
(* handle_request claims                                                   *)
(***************************************************************************)
\* C13: under any interleaving of handle_request calls at their suspension
\* points, each backend's active_connections equals the number of calls in
\* flight on it, so it stays within 0..max_connections and every exit, by
\* success or by a raised error, gives the connection back.
C13_InFlightAccounting ==
    \A k \in RrKeys(rr) :
        /\ rr.servers[k].active_connections = rr_inflight[k]
        /\ 0 <= rr.servers[k].active_connections
        /\ rr.servers[k].active_connections <= rr.servers[k].max_connections

\* a call has just left by a raised send error while another call is still
\* suspended on the same backend
C13_Witness ==
    /\ rr_last.op = "handle_request"
    /\ rr_last.result = "transport_error"
    /\ rr_inflight[rr_last.key] = 1
    /\ rr.servers[rr_last.key].active_connections = 1

\* how a handle_request call may end according to C14
RrHandleOutcomes == {"response", "transport_error", "RuntimeError"}

\* C14: handle_request returns the backend's response whenever the send
\* succeeds, re-raises the send's error unchanged when it raised, and
\* otherwise raises only for lack of capacity; no other error escapes.
C14_HandleOutcome ==
    /\ [](rr_last.op = "handle_request" => rr_last.result \in RrHandleOutcomes)
    /\ [][\A k \in RrKeys(rr) :
            /\ RrHandleFinish(k, "response") => rr_last'.result = "response"
            /\ RrHandleFinish(k, "raise") => rr_last'.result = "transport_error"]_vars

\* what does hold: the error of a failed send escapes unchanged unless the
\* server has an earlier success, and every other exit after the send is the
\* TypeError of the finally_after_request call
C14_TypeErrorAfterSuccess ==
    (rr_last.op = "handle_request" /\ rr_last.key # "none")
        => /\ rr_last.result \in {"TypeError", "transport_error"}
           /\ rr_last.result = "TypeError" <=> rr.servers[rr_last.key].sucess > 0
C14_TypeErrorReached ==
    rr_last.op = "handle_request" /\ rr_last.result = "TypeError"

(***************************************************************************)
(* Worker claims                                                           *)
(***************************************************************************)
\* the last n entries of a sequence
WkLastN(s, n) == IF Len(s) <= n THEN s ELSE SubSeq(s, Len(s) - n + 1, Len(s))

\* C15: results never holds more than max_results entries, is ordered by
\* non-decreasing completion time, and is exactly the most recent
\* min(n, max_results) of the n results recorded so far, oldest first.
C15_ResultRetention ==
    /\ Len(wk.results) <= wk.max_results
    /\ \A i \in 1..(Len(wk.results) - 1) :
          wk.results[i].completed_at <= wk.results[i + 1].completed_at
    /\ wk.results = WkLastN(wk_rec, wk.max_results)

\* a result was recorded with the log full: the oldest entry was evicted and
\* the two entries kept have different completion times
C15_Witness ==
    /\ wk.max_results = 2
    /\ Len(wk_rec) = 3
    /\ wk.results = <<wk_rec[2], wk_rec[3]>>
    /\ wk_rec[2].completed_at < wk_rec[3].completed_at

\* results as recording task t changes them, whatever the completion time
WkRecordedOnce(before, after, t) ==
    /\ after # <<>>
    /\ after[Len(after)].result = t
    /\ SubSeq(after, 1, Len(after) - 1)
          = IF Len(before) >= wk.max_results THEN Tail(before) ELSE before

\* C16: a task whose first attempt raised or timed out is re-attempted at
\* most max_retries times (1 + max_retries invocations at most), the worker
\* sleeps 2^k seconds before re-attempt k = 0, 1, ...; the first successful
\* attempt appends exactly one TaskResult and ends the retries; when every
\* attempt fails nothing is recorded, in results or in the failed buffer.
C16_WorkerRetry ==
    wk_hist.task # None =>
        LET h == wk_hist
            busy == wk_pc.task # None
            untouched == wk.results = h.before
        IN  /\ h.invocations <= 1 + wk.max_retries
            /\ Len(h.sleeps) <= wk.max_retries
            /\ \A i \in 1..Len(h.sleeps) : h.sleeps[i] = 2 ^ (i - 1)
            /\ h.invocations
                 = 1 + Len(h.sleeps) - (IF wk_pc.at = "backoff" THEN 1 ELSE 0)
            /\ untouched \/ WkRecordedOnce(h.before, wk.results, h.task[1])
            /\ busy => untouched
            /\ (~busy /\ untouched) => h.invocations = 1 + wk.max_retries
            /\ tq.failed = <<>>

\* the first attempt and the first re-attempt failed, the second re-attempt
\* returned: three invocations, sleeps of 1 and 2 seconds, one result
C16_Witness ==
    /\ wk.max_retries = 3
    /\ wk_hist.task # None
    /\ wk_pc.task = None
    /\ wk_hist.invocations = 3
    /\ wk_hist.sleeps = <<1, 2>>
    /\ wk.results = <<WkTaskResult(wk_now, wk_hist.task[1])>>

\* every attempt failed: 1 + max_retries invocations and nothing recorded
C16_ExhaustedReached ==
    /\ wk.max_retries = 2
    /\ wk_hist.task # None
    /\ wk_pc.task = None
    /\ wk_hist.invocations = 3
    /\ wk_hist.before # <<>>
    /\ wk.results = wk_hist.before

(***************************************************************************)
(* retry claims                                                            *)
(***************************************************************************)
\* the sleeps a call has made so far are the configured delays in order
RtSleepsAsConfigured ==
    \A i \in 1..Len(rt_hist.sleeps) :
        rt_hist.sleeps[i]
          = IF rt.exponential_backoff THEN rt.delay * 2 ^ (i - 1) ELSE rt.delay

\* C17: with attempts = N >= 0, a call in which every invocation raised a kind
\* in K ends after exactly N + 1 invocations and N sleeps by raising the error
\* of the last invocation; a call in which invocation k <= N + 1 returned ends
\* after exactly k invocations with that value.
C17_AttemptCount ==
    /\ rt_hist.invocations <= rt.max_retries + 1
    /\ RtSleepsAsConfigured
    /\ (/\ rt.at = "raised"
        /\ Len(rt_hist.raised) = rt_hist.invocations
        /\ \A i \in 1..Len(rt_hist.raised) : rt_hist.raised[i] \in rt.exceptions)
          => /\ rt_hist.invocations = rt.max_retries + 1
             /\ Len(rt_hist.sleeps) = rt.max_retries
             /\ rt_hist.error[1].invocation = rt.max_retries + 1
             /\ rt_hist.result = None
    /\ rt.at = "returned"
          => /\ rt_hist.result = <<rt_hist.invocations>>
             /\ Len(rt_hist.sleeps) = rt_hist.invocations - 1
             /\ rt_hist.error = None

\* every one of the N + 1 = 3 invocations raised a retried kind
C17_Witness ==
    /\ rt.max_retries = 2
    /\ rt.exponential_backoff
    /\ rt.at = "raised"
    /\ rt_hist.error[1].kind \in rt.exceptions
    /\ rt_hist.invocations = 3
    /\ rt_hist.sleeps = <<rt.delay, 2 * rt.delay>>
C17_ReturnReached ==
    rt.at = "returned" /\ rt_hist.invocations = 3 /\ rt.max_retries = 3

\* C18: an error whose kind is not in K is propagated at once: it is the error
\* of the invocation that just ended and no sleep followed that invocation,
\* however many attempts remained.
C18_KindFilter ==
    \A i \in 1..Len(rt_hist.raised) :
        rt_hist.raised[i] \notin rt.exceptions
            => /\ rt.at = "raised"
               /\ i = rt_hist.invocations
               /\ rt_hist.error = <<[kind |-> rt_hist.raised[i], invocation |-> i]>>
               /\ Len(rt_hist.sleeps) = i - 1
               /\ rt_hist.result = None

\* the second of up to four invocations raised a kind outside K
C18_Witness ==
    /\ rt.max_retries = 3
    /\ rt.at = "raised"
    /\ rt_hist.error[1].kind \notin rt.exceptions
    /\ rt_hist.invocations = 2
    /\ Len(rt_hist.sleeps) = 1

(***************************************************************************)
(* Request hedging claims                                                  *)
(***************************************************************************)
HgEnded == hg.at = "ended"
HgOutcome == hg.outcome[1]
\* the attempts that were created in this call
HgCreated == {i \in HgAttempts : hg.t[i] # "none"}

\* C19: a call ends with a result, with Timeout because both attempts were
\* still pending at the overall deadline, or with an attempt's error; an
\* attempt's error is raised only when the other attempt, if it was started,
\* has failed too, so a call in which an attempt succeeded before the deadline
\* returns a result.
C19_HedgingOutcome ==
    HgEnded =>
        /\ HgOutcome.kind \in {"result", "Timeout", "error"}
        /\ HgOutcome.kind = "result" => hg.t[HgOutcome.of] = "ok"
        /\ HgOutcome.kind = "Timeout"
              => /\ hg.expired
                 /\ HgCreated = {1, 2}
                 /\ \A i \in HgCreated : hg.t[i] = "cancelled"
        /\ HgOutcome.kind = "error"
              => /\ hg.t[HgOutcome.of] = "failed"
                 /\ \A i \in HgCreated : hg.t[i] = "failed"
        /\ (\E i \in HgCreated : hg.t[i] = "ok" /\ i \notin hg_hist.late)
              => HgOutcome.kind = "result"

\* what does hold: an error is raised with the other attempt successful only
\* when both attempts were done by the time the second wait returned
C19_ErrorDespiteSuccessOnlyFromWait2 ==
    (HgEnded /\ HgOutcome.kind = "error" /\ \E i \in HgCreated : hg.t[i] = "ok")
        => hg.other = 0 /\ HgCreated = {1, 2}
C19_ErrorDespiteSuccessReached ==
    /\ HgEnded
    /\ HgOutcome = [kind |-> "error", of |-> 1]
    /\ hg.t[2] = "ok"
    /\ ~hg.expired

\* C20: when a call has returned or raised, no attempt is still running: every
\* attempt that was created has finished or has been cancelled, and at most
\* two attempts were created.
C20_NothingLeftBehind ==
    /\ hg_hist.created <= 2
    /\ hg_hist.created = Cardinality(HgCreated)
    /\ HgEnded => \A i \in HgCreated : hg.t[i] \in {"ok", "failed", "cancelled"}

\* the second attempt won and the first, still pending, was cancelled
C20_Witness ==
    /\ HgEnded
    /\ HgOutcome = [kind |-> "result", of |-> 2]
    /\ hg.t[1] = "cancelled"
\* the other ways a call ends
C20_TimeoutReached == HgEnded /\ HgOutcome.kind = "Timeout" /\ hg.t[2] = "cancelled"
C20_FallbackReached == HgEnded /\ hg.other # 0 /\ HgOutcome.kind = "result"
C20_FirstWinsReached == HgEnded /\ hg.t[2] = "none" /\ HgOutcome.kind = "result"

\* C21: when the caller cancels a call that is suspended with one or both
\* attempts pending, every pending attempt is cancelled too: no attempt is
\* still running once the cancelled call has ended.
C21_CancelPropagates ==
    hg.at = "cancelled" => \A i \in HgCreated : hg.t[i] # "pending"

\* what does hold: only a cancellation during the fallback await takes the
\* awaited attempt with it
C21_OnlyAwaitedAttemptCancelled ==
    hg.at = "cancelled"
        => \A i \in HgCreated : hg.t[i] = "cancelled" => i = hg.other
C21_LeakReached ==
    hg.at = "cancelled" /\ hg.t[1] = "pending" /\ hg.t[2] = "pending"


\* ------------------------------------------------------------------------
\* C22  Timeout policy: when op completes before the deadline its value is
\* returned and the fallback is not run; when the deadline expires first op
\* is cancelled and the wrapper returns the value of the fallback called once
\* with the original inputs (after awaiting it when it is a coroutine) if a
\* fallback was given, and raises TimeoutError otherwise; an error other
\* than TimeoutError raised by op propagates unchanged and the fallback is
\* not run.
ToResult(by, value) == <<[kind |-> "result", by |-> by, value |-> value]>>
ToError(error) == <<[kind |-> "error", by |-> "op", value |-> error]>>
C22_TimeoutPolicy ==
    /\ to.at = "ended" /\ to.op = "return" =>
           /\ to.outcome = ToResult("op", to.args)
           /\ to_hist.fallback_calls = <<>>
    /\ to_hist.expired =>
           /\ to.op = "cancelled"
           /\ to.fallback # "none" => to_hist.fallback_calls = <<to.args>>
           /\ to.fallback = "async" => to.at \in {"in_fallback", "ended"}
           /\ to.at = "ended" =>
                  to.outcome = IF to.fallback = "none" THEN ToError("TimeoutError")
                               ELSE ToResult("fallback", to.args)
    /\ to.at = "ended" /\ to.op = "ValueError" =>
           /\ to.outcome = ToError("ValueError")
           /\ to_hist.fallback_calls = <<>>
\* a call whose deadline expired has ended with the value of an awaited fallback
C22_Witness ==
    /\ to.at = "ended" /\ to_hist.expired /\ to.fallback = "async"
    /\ to.outcome = ToResult("fallback", to.args)
\* a call without fallback has ended with TimeoutError after its deadline expired
C22_TimeoutRaised ==
    /\ to.at = "ended" /\ to_hist.expired /\ to.fallback = "none"
    /\ to.outcome = ToError("TimeoutError")
\* a call has ended with op's own value
C22_ValueReturned ==
    to.at = "ended" /\ to.op = "return" /\ to.fallback # "none" /\ to.elapsed > 0


\* ------------------------------------------------------------------------
\* C23  Queue ordering: dequeue() returns the oldest item of the
\* lowest-numbered non-empty priority buffer and removes exactly that item,
\* and returns None, changing nothing, iff all buffers are empty; so items of
\* one priority leave in enqueue order, no item leaves while an item of a
\* higher priority is pending, and no item is dequeued twice.
TqNonEmpty(t) == {i \in 0..(t.priorities - 1) : t.q[i + 1] # <<>>}
TqFirstNonEmpty(t) == CHOOSE i \in TqNonEmpty(t) : \A k \in TqNonEmpty(t) : i <= k
\* the worker's call of dequeue(): the loop test passed and the pass ended in
\* the sleep on an empty queue or with a task in hand
TqDequeueCalled ==
    wk_pc.at = "loop" /\ wk_pc'.at \in {"sleep_empty", "first"}
TqDequeueExact ==
    IF TqNonEmpty(tq) = {}
    THEN wk_pc'.at = "sleep_empty" /\ tq' = tq /\ tq_log' = tq_log
    ELSE LET m == TqFirstNonEmpty(tq)
         IN  /\ wk_pc'.at = "first"
             /\ wk_pc'.task = <<Head(tq.q[m + 1])>>
             /\ tq' = [tq EXCEPT !.q[m + 1] = Tail(@)]
             /\ tq_log' = Append(tq_log, [task |-> Head(tq.q[m + 1]), priority |-> m])
TqLeftInOrder ==
    \A i, j \in DOMAIN tq_log :
        /\ i < j /\ tq_log[i].priority = tq_log[j].priority
               => tq_log[i].task < tq_log[j].task
        /\ i # j => tq_log[i].task # tq_log[j].task
TqGoneFromBuffers ==
    \A i \in DOMAIN tq_log, b \in DOMAIN tq.q :
        \A k \in DOMAIN tq.q[b] : tq.q[b][k] # tq_log[i].task
C23_QueueOrdering ==
    /\ [](TqLeftInOrder /\ TqGoneFromBuffers)
    /\ [][TqDequeueCalled => TqDequeueExact]_vars
\* three tasks have left: the two of priority 0 in enqueue order, before the
\* older task of priority 1
C23_Witness ==
    /\ Len(tq_log) = 3
    /\ tq_log[1] = [task |-> 2, priority |-> 0]
    /\ tq_log[2] = [task |-> 3, priority |-> 0]
    /\ tq_log[3] = [task |-> 1, priority |-> 1]
\* dequeue() has returned None on empty buffers after handing out a task
C23_NoneReached ==
    wk_pc.at = "sleep_empty" /\ Len(tq_log) > 0


\* ------------------------------------------------------------------------
\* C24  Worker stop: once stop() has been called, whenever that is relative
\* to the start of execute_tasks, the worker dequeues no further task (and
\* execute_tasks returns once the task in hand has completed).
C24_StopHonoured ==
    [][wk_stop => tq_log' = tq_log]_vars
\* a stop() that arrives after execute_tasks has set is_running is honoured:
\* no task is dequeued while the flag is down
C24_StopWhileRunningHonoured ==
    [][(~wk.is_running /\ wk_pc.at \notin {"idle", "done"}) => tq_log' = tq_log]_vars
\* stop() was called before execute_tasks started, and the worker is running a
\* task it dequeued afterwards
C24_StartAfterStopDequeues ==
    /\ wk_stop /\ wk.is_running /\ wk_pc.at = "first"
    /\ Len(tq_log) = 1


\* ------------------------------------------------------------------------
\* C25  delete_server postcondition: after delete_server(id) on a ring with at
\* least two servers, id is no longer in the mapping, every index id owned is
\* owned by the server that owned index (max_index(id) + 1) mod |ring|, the
\* ring positions and the indices of all other servers are unchanged, the
\* server count is one less, and with the backing store enabled the number
\* of stored items is unchanged.
ChHeir(c, id) ==
    ChGetServerFromRingIndex(c.server_node_mapping,
                             (c.server_node_mapping[id].max + 1) % Len(c.ring_nodes))
ChDeletedFromTwo ==
    /\ ch_last.op = "delete_server"
    /\ Cardinality(DOMAIN ch_last.pre.server_node_mapping) >= 2
    /\ ch_last.pre.servers >= 2
ChDeleteExact ==
    LET pre == ch_last.pre
        id == ch_last.server
        heir == ChHeir(pre, id)
        now == ch.server_node_mapping
    IN  /\ id \notin DOMAIN now
        /\ heir \in DOMAIN now
        /\ \A i \in pre.server_node_mapping[id].owned : ChGetServerFromRingIndex(now, i) = heir
        /\ ch.ring_nodes = pre.ring_nodes
        /\ \A sv \in DOMAIN pre.server_node_mapping \ {id, heir} :
               sv \in DOMAIN now /\ now[sv].owned = pre.server_node_mapping[sv].owned
        /\ heir \in DOMAIN pre.server_node_mapping \ {id} =>
               now[heir].owned = pre.server_node_mapping[heir].owned
                                     \cup pre.server_node_mapping[id].owned
        /\ ch.servers = pre.servers - 1
        /\ ch_db.enabled => ChStored(ch_db) = ChStored(ch_last.db)
C25_DeleteServerPostcondition == ChDeletedFromTwo => ChDeleteExact
\* C25, where the code departs from it: only when the index after id's highest
\* index is owned by id itself (id owns the last and the first index), or is
\* owned by nobody
C25_FailsOnlyWithoutHeir ==
    (ChDeletedFromTwo /\ ~ChDeleteExact) =>
        ChHeir(ch_last.pre, ch_last.server) \notin
            DOMAIN ch_last.pre.server_node_mapping \ {ch_last.server}
\* a server that owned the last and the first index of a freshly built ring
\* was deleted: it is still in the mapping and its items are gone
C25_SelfHeirReached ==
    /\ ChDeletedFromTwo
    /\ ChIsPartition(ch_last.pre)
    /\ ChHeir(ch_last.pre, ch_last.server) = ch_last.server
    /\ ch_last.server \in DOMAIN ch.server_node_mapping
    /\ ChStored(ch_last.db) = 2 /\ ChStored(ch_db) < 2


\* ------------------------------------------------------------------------
\* C26  insert_server postcondition: after any earlier inserts and deletes,
\* insert_server() allocates a server id that is not in the mapping at that
\* moment, gives it exactly V vnodes (the ring grows by V), increments the
\* server count, and leaves the number of indices owned by every existing
\* server unchanged.
ChInsertedServer == ch_last.op = "insert_server"
ChInsertExact ==
    LET pre == ch_last.pre
        id == ch_last.server
        now == ch.server_node_mapping
    IN  /\ id \notin DOMAIN pre.server_node_mapping
        /\ id \in DOMAIN now
        /\ Cardinality(now[id].owned) = pre.nodes
        /\ Len(ch.ring_nodes) = Len(pre.ring_nodes) + pre.nodes
        /\ ch.servers = pre.servers + 1
        /\ \A sv \in DOMAIN pre.server_node_mapping \ {id} :
               /\ sv \in DOMAIN now
               /\ Cardinality(now[sv].owned) = Cardinality(pre.server_node_mapping[sv].owned)
C26_InsertServerPostcondition == ChInsertedServer => ChInsertExact
\* C26, where the code departs from it: only in the choice of the id; with
\* an id that is not in the mapping the rest of the postcondition holds
C26_FailsOnlyByIdReuse ==
    (ChInsertedServer /\ ~ChInsertExact) =>
        ch_last.server \in DOMAIN ch_last.pre.server_node_mapping
\* insert_server() took the id of a server of the mapping after a delete, on
\* a ring whose indices all had one owner
C26_IdReuseReached ==
    /\ ChInsertedServer
    /\ ChIsPartition(ch_last.pre)
    /\ ch_last.server \in DOMAIN ch_last.pre.server_node_mapping
    /\ ~ChIsPartition(ch)


\* ------------------------------------------------------------------------
\* C27  Stability under removal: for every key k and every server d,
\* delete_server(d) changes get_server(k) only if k mapped to d before the
\* deletion; every key that mapped to another server keeps its server.
ChHashes == 0..UPPER_BOUND
C27_StableUnderRemoval ==
    ch_last.op = "delete_server" =>
        \A h \in ChHashes :
            ChGetServer(ch_last.pre, h) # ch_last.server
                => ChGetServer(ch, h) = ChGetServer(ch_last.pre, h)
\* a server of a ring of three servers was deleted: a key of the deleted
\* server has moved to another one and the keys of the other servers stayed
C27_Witness ==
    /\ ch_last.op = "delete_server"
    /\ Cardinality(DOMAIN ch_last.pre.server_node_mapping) = 3
    /\ ChIsPartition(ch_last.pre)
    /\ \E h \in ChHashes : /\ ChGetServer(ch_last.pre, h) = ch_last.server
                           /\ ChGetServer(ch, h) # ch_last.server
    /\ \E h1, h2 \in ChHashes :
           /\ ChGetServer(ch_last.pre, h1) # ch_last.server
           /\ ChGetServer(ch_last.pre, h2) # ch_last.server
           /\ ChGetServer(ch_last.pre, h1) # ChGetServer(ch_last.pre, h2)
           /\ ChGetServer(ch, h1) = ChGetServer(ch_last.pre, h1)
           /\ ChGetServer(ch, h2) = ChGetServer(ch_last.pre, h2)

\* ------------------------------------------------------------------------
\* C28  Move fraction on add: on a ring built with 10 servers and 100 vnodes
\* each, holding keys whose hashes are spread evenly over the hash space,
\* after one insert_server() at most one fifth of the keys have a get_server
\* result different from the server they were stored under.
\* the server a stored key was recorded under by insert_data
MvRecorded(hash_val) ==
    CHOOSE sv \in DOMAIN ch_db.data :
        \E i \in DOMAIN ch_db.data[sv] : ch_db.data[sv][i] = hash_val
MvMovedKeys == {k \in 1..MvKeys : MvRecorded(MvKeyHash(k)) # ChGetServer(ch, MvKeyHash(k))}
MvServerAdded == ch_last.op = "insert_server" /\ ChStored(ch_db) = MvKeys
C28_MoveFraction == MvServerAdded => 5 * Cardinality(MvMovedKeys) <= MvKeys
\* what holds instead: most of the keys change server, and fewer than a
\* fifth of the keys go to the new server
MvToNewServer == {k \in MvMovedKeys : ChGetServer(ch, MvKeyHash(k)) = ch_last.server}
C28_MostKeysMove ==
    MvServerAdded => /\ 2 * Cardinality(MvMovedKeys) > MvKeys
                     /\ 5 * Cardinality(MvToNewServer) <= MvKeys
C28_ServerAddedReached == MvServerAdded /\ Len(ch.ring_nodes) = (MvServers + 1) * MvNodes

\* ------------------------------------------------------------------------
\* C30  Backend health: after every completion of a request on backend b,
\* b.healthy is true iff success / (success + failure) of b is strictly
\* greater than the configured healthy threshold; b.healthy changes value
\* only at the completion of a request on b; and before any completion on b
\* its success-rate is 1.0 and it is healthy.
RrCompletedOn(k) == rr_last.op = "handle_request" /\ rr_last.key = k
RrHealthExact(k) ==
    LET b == rr.servers[k]
    IN  b.healthy <=> (b.sucess * 100000 > rr.healthy * (b.sucess + b.failure))
RrHealthFresh(k) ==
    LET b == rr.servers[k]
    IN  b.sucess + b.failure = 0 => b.sucess_rate = 100000 /\ b.healthy
RrHealthChangedAtCompletion ==
    \A k \in RrKeys(rr) :
        rr'.servers[k].healthy # rr.servers[k].healthy
            => /\ rr_last'.op = "handle_request" /\ rr_last'.key = k
               /\ rr'.servers[k].total_requests = rr.servers[k].total_requests + 1
C30_BackendHealth ==
    /\ [](\A k \in RrKeys(rr) : (RrCompletedOn(k) => RrHealthExact(k)) /\ RrHealthFresh(k))
    /\ [][RrHealthChangedAtCompletion]_vars
\* C30, what the code does instead: the rate rounded to five decimals is what
\* is compared with the threshold
C30_RoundedRateDecides ==
    \A k \in RrKeys(rr) :
        RrCompletedOn(k) =>
            (rr.servers[k].healthy <=>
                Round5(rr.servers[k].sucess, rr.servers[k].sucess + rr.servers[k].failure)
                    > rr.healthy)
\* C30, the parts the code keeps: health changes only at a completion on the
\* backend, and a backend without completions has rate 1.0 and is healthy
C30_HealthChangesOnlyAtCompletion ==
    /\ [](\A k \in RrKeys(rr) : RrHealthFresh(k))
    /\ [][RrHealthChangedAtCompletion]_vars
\* a backend with one success in three completions, threshold 0.33333: the
\* rate 1/3 is above the threshold and the backend is unhealthy
C30_RoundingReached ==
    \E k \in RrKeys(rr) :
        /\ RrCompletedOn(k)
        /\ rr.healthy = 33333
        /\ rr.servers[k].sucess = 1 /\ rr.servers[k].failure = 2
        /\ ~rr.servers[k].healthy


\* ------------------------------------------------------------------------
\* C29  Selected backend is eligible: for every strategy, LeastConnections
\* among them, whenever at least one backend is healthy and below its cap,
\* the id returned by next() denotes a backend that is healthy and has
\* active_connections < max_connections at selection time.
LcSelected == lc_last.op \in {"next", "handle_start", "AssertionError"}
LcSomeEligible(l) == \E k \in LcKeys(l) : RrEligible(l.servers[k])
C29_SelectedIsEligible ==
    (LcSelected /\ LcSomeEligible(lc_last.pre))
        => /\ lc_last.key \in LcKeys(lc_last.pre)
           /\ RrEligible(lc_last.pre.servers[lc_last.key])
\* what LeastConnections selects instead: a backend with the fewest active
\* connections, the first of them in dict order
C29_LeastConnectionsSelected ==
    LcSelected =>
        /\ lc_last.key \in LcKeys(lc_last.pre)
        /\ \A k \in LcKeys(lc_last.pre) :
               lc_last.pre.servers[lc_last.key].active_connections
                   <= lc_last.pre.servers[k].active_connections
\* next() returned an unhealthy backend while a healthy one had capacity, and
\* a backend at its cap while another was below it
C29_UnhealthyReached ==
    /\ LcSelected /\ LcSomeEligible(lc_last.pre)
    /\ ~lc_last.pre.servers[lc_last.key].healthy
C29_AtCapReached ==
    /\ lc_last.op = "AssertionError" /\ LcSomeEligible(lc_last.pre)

\* ------------------------------------------------------------------------
\* C32  Fixed-window blacklist: allow(key) on a blacklisted key returns
\* false, adds one to the global denied total and to the key's denied
\* metric, and leaves the counter map and the window start unchanged; after
\* remove_from_blacklist(key) the key is off the blacklist and allow(key) is
\* decided by the limit: it returns true iff the key's count in the current
\* window is below the limit.
FwAllowCalled == fw_last.op = "allow"
FwDeniedMetric(w, key) == IF key \in DOMAIN w.user_metrics THEN w.user_metrics[key][2] ELSE 0
\* the count of the key of the last call in the window current at the call
FwCountAtCall == IF FwOutside THEN 0 ELSE DictGet0(FwPre.map, fw_last.key)
C32_Blacklist ==
    /\ (FwAllowCalled /\ fw_last.key \in FwPre.blacklist)
       => /\ fw_last.result = 0
          /\ fw.denied = FwPre.denied + 1
          /\ fw.allowed = FwPre.allowed
          /\ FwDeniedMetric(fw, fw_last.key) = FwDeniedMetric(FwPre, fw_last.key) + 1
          /\ fw.map = FwPre.map
          /\ fw.start_window = FwPre.start_window
    /\ fw_last.op = "remove_from_blacklist" => fw_last.key \notin fw.blacklist
    /\ (FwAllowCalled /\ fw_last.key \notin FwPre.blacklist)
       => (fw_last.result = 1 <=> FwCountAtCall < fw.limit)
\* C32 witness: allow() on a blacklisted key whose window had run out while
\* the map held counters: the call was denied and counted, nothing was reset.
C32_Witness ==
    /\ FwAllowCalled /\ fw_last.key \in FwPre.blacklist
    /\ FwOutside /\ FwPre.map # <<>>
    /\ fw_last.result = 0 /\ fw.map = FwPre.map
\* C32, further case reached: a key denied once by the blacklist is allowed
\* after its removal from the blacklist
C32_AllowedAfterRemoval ==
    /\ FwAllowCalled /\ fw_last.result = 1
    /\ fw.user_metrics[fw_last.key] = <<1, 1>>
    /\ FwPre.map # <<>>

\* ------------------------------------------------------------------------
\* C33  Sliding-window blacklist: allow(key) on a blacklisted key returns
\* false and changes no state at all: the totals, the per-key metrics and
\* the per-key timestamp logs are as before and no entry is created for the
\* key.
SwPreOf == sw_last.pre
SwBlacklistedCall == sw_last.op = "allow" /\ sw_last.key \in SwPreOf.blacklist
C33_BlacklistNoChange ==
    SwBlacklistedCall
    => /\ sw_last.result = 0
       /\ sw.allowed = SwPreOf.allowed /\ sw.denied = SwPreOf.denied
       /\ sw.user_metrics = SwPreOf.user_metrics
       /\ sw.map = SwPreOf.map
       /\ sw.blacklist = SwPreOf.blacklist
\* C33 witness: allow() on two blacklisted keys, one with recorded
\* timestamps and metrics, the other never seen before
C33_Witness ==
    /\ SwBlacklistedCall
    /\ sw_last.key \in DOMAIN SwPreOf.map /\ SwPreOf.map[sw_last.key] # <<>>
    /\ sw.map = SwPreOf.map
C33_UnseenReached ==
    /\ SwBlacklistedCall
    /\ sw_last.key \notin DOMAIN sw.map /\ sw_last.key \notin DOMAIN sw.user_metrics
    /\ sw.allowed > 0

\* ------------------------------------------------------------------------
\* C34  Sliding-window remaining: remaining(key) changes no state and
\* returns max(0, limit - number of recorded timestamps of key that are
\* >= now - window), which is limit for a key never seen; and allow(key) on
\* a key that is not blacklisted returns true iff that number, taken at the
\* instant of the call, is positive.
SwInWindow(w, key, now) ==
    IF key \in DOMAIN w.map
    THEN Cardinality({i \in DOMAIN w.map[key] :
                         w.map[key][i] >= now - w.window * UnitMs(w.unit)})
    ELSE 0
SwRemainingAsStated(w, key, now) ==
    IF w.limit - SwInWindow(w, key, now) > 0 THEN w.limit - SwInWindow(w, key, now) ELSE 0
C34_Remaining ==
    /\ sw_last.op = "remaining"
       => /\ sw = SwPreOf
          /\ sw_last.result = SwRemainingAsStated(SwPreOf, sw_last.key, sw_last.now)
          /\ sw_last.key \notin DOMAIN SwPreOf.map => sw_last.result = sw.limit
    /\ (sw_last.op = "allow" /\ sw_last.key \notin SwPreOf.blacklist)
       => (sw_last.result = 1
           <=> SwRemainingAsStated(SwPreOf, sw_last.key, sw_last.now) > 0)
    /\ \A k \in SwKeys :
          SwRemainingResult(sw, k, sw_now) = SwRemainingAsStated(sw, k, sw_now)
\* C34 witness: remaining() on a key with one timestamp that has left the
\* window and one still inside it
C34_Witness ==
    /\ sw_last.op = "remaining"
    /\ sw_last.key \in DOMAIN sw.map
    /\ Len(sw.map[sw_last.key]) = 2
    /\ SwInWindow(sw, sw_last.key, sw_last.now) = 1
    /\ sw_last.result = sw.limit - 1
\* C34, further case reached: allow() admitted a key whose log was full of
\* timestamps that had left the window
C34_AllowAfterExpiry ==
    /\ sw_last.op = "allow" /\ sw_last.result = 1
    /\ sw_last.key \in DOMAIN SwPreOf.map
    /\ Len(SwPreOf.map[sw_last.key]) = SwPreOf.limit
    /\ SwInWindow(SwPreOf, sw_last.key, sw_last.now) < SwPreOf.limit

\* ------------------------------------------------------------------------
\* C36  Opened-at invariant: in every state reachable by run() and reset(),
\* state = Open implies time_opened is set and state = Closed implies it is
\* None; time_opened takes a new value only in a call that moves the breaker
\* from another state into Open (the clock value of that call), and while
\* the breaker is Half-Open it keeps the value of the open that preceded.
CbOpenedAtSet ==
    /\ cb.time_opened # cb_last.pre.time_opened
    /\ cb.time_opened # None
C36_OpenedAt ==
    /\ cb.state = OPEN_STATE => cb.time_opened # None
    /\ cb.state = CLOSED_STATE => cb.time_opened = None
    /\ CbOpenedAtSet
       => /\ cb_last.op = "run"
          /\ cb_last.pre.state # OPEN_STATE
          /\ cb.state = OPEN_STATE
          /\ cb.time_opened = <<cb_last.now>>
    /\ cb.state = HALF_OPEN_STATE
       => /\ cb.time_opened # None
          /\ cb.time_opened = cb_last.pre.time_opened
          /\ cb_last.pre.state \in {OPEN_STATE, HALF_OPEN_STATE}
\* C36 witness: a run() took the breaker from Open to Half-Open after the
\* cool-down and left time_opened at the value of the open
C36_Witness ==
    /\ cb_last.op = "run"
    /\ cb_last.pre.state = OPEN_STATE /\ cb.state = HALF_OPEN_STATE
    /\ cb.time_opened = cb_last.pre.time_opened
    /\ cb_last.now > cb.time_opened[1]
\* C36, further cases reached: a reopen from Half-Open stamps the clock of
\* that call; a close from Half-Open and a reset from Open clear time_opened
C36_ReopenReached ==
    /\ cb_last.op = "run"
    /\ cb_last.pre.state = HALF_OPEN_STATE /\ cb.state = OPEN_STATE
    /\ cb.time_opened = <<cb_last.now>> /\ cb.time_opened # cb_last.pre.time_opened
C36_ClosedReached ==
    /\ cb_last.op = "run"
    /\ cb_last.pre.state = HALF_OPEN_STATE /\ cb.state = CLOSED_STATE
    /\ cb.time_opened = None
C36_ResetReached ==
    /\ cb_last.op = "reset"
    /\ cb_last.pre.state = OPEN_STATE /\ cb.time_opened = None

\* ------------------------------------------------------------------------
\* C38  Ring stays ordered: in every reachable state the ring is an
\* ascending sequence of positions of the hash space; insert_virtual_node
\* places the new position at the midpoint of the arc with the largest
\* modular gap and the ring is ascending afterwards.
ChAscending(ring) == \A i \in 1..(Len(ring) - 1) : ring[i] <= ring[i + 1]
ChInSpace(c) == \A i \in DOMAIN c.ring_nodes : c.ring_nodes[i] \in 0..c.upper_bound
C38_RingOrdered == ChAscending(ch.ring_nodes) /\ ChInSpace(ch)
\* what holds instead: the positions stay in the hash space, and an
\* insert_virtual_node on an ascending ring leaves it ascending unless the
\* largest gap is the wrap-around arc and the midpoint lies past the end of
\* the hash space, in which case the wrapped position is appended after the
\* last one
ChWrapMidpoint(c) ==
    LET n == Len(c.ring_nodes)
    IN  /\ ChFindBiggestNodeGap(c) = n - 1
        /\ c.ring_nodes[n] + ChGap(c, n - 1) \div 2 > c.upper_bound
C38_UnorderedOnlyByWrap ==
    /\ ChInSpace(ch)
    /\ (ch_last.op = "insert_virtual_node" /\ ChAscending(ch_last.pre.ring_nodes))
       => (ChAscending(ch.ring_nodes) <=> ~ChWrapMidpoint(ch_last.pre))
C38_UnorderedReached ==
    /\ ch_last.op = "insert_virtual_node"
    /\ ChAscending(ch_last.pre.ring_nodes)
    /\ ~ChAscending(ch.ring_nodes)
    /\ ch.ring_nodes[Len(ch.ring_nodes)] < ch.ring_nodes[1]

\* ------------------------------------------------------------------------
\* C39  insert_virtual_node preserves ownership: insert_virtual_node(s) adds
\* exactly one ring entry, owned by s, and changes the owner of no entry
\* that existed before: for an insertion point p, every earlier index i has
\* at its shifted index (i, or i + 1 when i >= p) the same position and the
\* same owners; afterwards each server's max field is the maximum of its
\* owned-index set (-1 for a server that owns nothing).
ChOwners(c, index) == {sv \in DOMAIN c.server_node_mapping : index \in ChOwned(c, sv)}
ChShiftedIndex(i, at) == IF i >= at THEN i + 1 ELSE i
ChVnodeInserted == ch_last.op = "insert_virtual_node"
ChMaxExact(c) ==
    \A sv \in DOMAIN c.server_node_mapping :
        c.server_node_mapping[sv].max =
            IF ChOwned(c, sv) = {} THEN -1 ELSE SetMax(ChOwned(c, sv))
C39_InsertPreservesOwnership ==
    ChVnodeInserted
    => /\ Len(ch.ring_nodes) = Len(ch_last.pre.ring_nodes) + 1
       /\ \E at \in 0..Len(ch_last.pre.ring_nodes) :
             /\ ChOwners(ch, at) = {ch_last.server}
             /\ \A i \in 0..(Len(ch_last.pre.ring_nodes) - 1) :
                   /\ ch.ring_nodes[ChShiftedIndex(i, at) + 1] = ch_last.pre.ring_nodes[i + 1]
                   /\ ChOwners(ch, ChShiftedIndex(i, at)) = ChOwners(ch_last.pre, i)
       /\ ChMaxExact(ch)
\* C39 witness: a vnode inserted in the middle of a ring of three servers'
\* vnodes, for a server that owned an index behind the insertion point
C39_Witness ==
    /\ ChVnodeInserted
    /\ Len(ch_last.pre.ring_nodes) >= 3
    /\ \E at \in 1..(Len(ch_last.pre.ring_nodes) - 1) :
          /\ ChOwners(ch, at) = {ch_last.server}
          /\ \E i \in 0..(at - 1) : ChOwners(ch, i) # {ch_last.server}
          /\ \E i \in (at + 1)..(Len(ch.ring_nodes) - 1) :
                ch_last.server \in ChOwners(ch_last.pre, i - 1)

\* ------------------------------------------------------------------------
\* C40  No health recovery under the rotation strategies: under RoundRobin
\* and WeightedRoundRobin a backend that is unhealthy and has no request in
\* flight is not returned by next() (called directly or by handle_request),
\* so it stays unhealthy with no request in flight; and while every backend
\* is in that condition every next() and every handle_request raises the
\* no-capacity RuntimeError.
RrDead(k) == ~rr.servers[k].healthy /\ rr_inflight[k] = 0
WrrDead(k) == ~wrr.servers[k].healthy /\ wrr_inflight[k] = 0
RrStaysDead ==
    \A k \in RrKeys(rr) :
        RrDead(k) => /\ ~rr'.servers[k].healthy
                     /\ rr_inflight'[k] = 0
                     /\ rr_last'.result # k
WrrStaysDead ==
    \A k \in WrrKeys(wrr) :
        WrrDead(k) => /\ ~wrr'.servers[k].healthy
                      /\ wrr_inflight'[k] = 0
                      /\ wrr_last'.result # k
RrAllDeadRaises ==
    (\A k \in RrKeys(rr) : RrDead(k)) => rr_last'.result = "RuntimeError"
WrrAllDeadRaises ==
    (\A k \in WrrKeys(wrr) : WrrDead(k)) => wrr_last'.result = "RuntimeError"
C40_NoHealthRecovery ==
    /\ [][WrrAtRest => RrStaysDead /\ RrAllDeadRaises]_vars
    /\ [][RrAtRest => WrrStaysDead /\ WrrAllDeadRaises]_vars
\* C40 witness: on a round-robin pool of two backends both have failed a
\* request and are unhealthy with nothing in flight, and a handle_request
\* made in that condition raised
C40_Witness ==
    /\ Cardinality(RrKeys(rr)) = 2
    /\ \A k \in RrKeys(rr) : RrDead(k) /\ rr.servers[k].failure > 0
    /\ rr_last = RrLast("handle_request", "none", "RuntimeError")
\* C40, reached on weighted pools: with one backend dead the rotation goes
\* on over the others, and on a pool whose only backend is dead next() raises
C40_WeightedSkipReached ==
    /\ wrr_last.op = "next"
    /\ \E k \in WrrKeys(wrr) :
          /\ ~wrr_last.pre.servers[k].healthy /\ wrr_inflight[k] = 0
          /\ wrr_last.pre.servers[k].failure > 0
          /\ wrr_last.result \in WrrKeys(wrr) \ {k}
C40_WeightedAllDeadReached ==
    /\ wrr_last.op = "next" /\ wrr_last.result = "RuntimeError"
    /\ \A k \in WrrKeys(wrr) :
          /\ ~wrr_last.pre.servers[k].healthy /\ wrr_inflight[k] = 0
          /\ wrr_last.pre.servers[k].failure > 0

\* C35 (as claimed): with callers of one breaker interleaving at the
\* callable, one Half-Open episode admits at most open_half_calls
\* invocations of the callable, and half_open_success + half_open_error
\* never exceeds open_half_calls
CcHalfTotal == cc.half_open_success + cc.half_open_error
CcExecuting == {t \in CcCallers : cc_pc[t] # "idle"}
C35_ProbeBudget ==
    /\ cc_hist <= cc.open_half_calls
    /\ CcHalfTotal <= cc.open_half_calls
\* C35, what holds instead: the probe budget is overshot by at most the
\* callers that were past the budget test when the budget filled up
C35_OvershootBounded ==
    /\ cc_hist <= cc.open_half_calls + Cardinality(CcCallers) - 1
    /\ CcHalfTotal <= cc.open_half_calls + Cardinality(CcCallers) - 1
\* C35, reached: with a budget of one probe two callers are executing a
\* probe at the same time, and both probes end up counted
C35_TwoProbesReached ==
    /\ cc.open_half_calls = 1
    /\ cc.state = HALF_OPEN_STATE
    /\ \A t \in CcCallers : cc_pc[t] = HALF_OPEN_STATE
C35_OvercountReached ==
    /\ cc.open_half_calls = 1
    /\ cc.state = HALF_OPEN_STATE
    /\ CcExecuting = {}
    /\ CcHalfTotal = 2

\* C31 (as claimed): a backend given to add_server is known to the active
\* strategy, and on a RoundRobin pool whose backends are all eligible every
\* backend of the pool is returned within one full rotation of next() calls
RrRotation == {rr.ordered_servers[i] : i \in DOMAIN rr.ordered_servers}
WrrRotation == {wrr.ordered_servers[i].key : i \in DOMAIN wrr.ordered_servers}
RrReturned == {rr_hist[i] : i \in DOMAIN rr_hist}
C31_AddTakesEffect ==
    /\ RrKeys(rr) \subseteq RrRotation
    /\ WrrKeys(wrr) \subseteq WrrRotation
    /\ Len(rr_hist) >= Cardinality(RrKeys(rr)) => RrKeys(rr) \subseteq RrReturned
\* C31, what holds instead: a backend that add_server put into the pool is
\* outside the strategy's rotation for good; it is never returned by next()
\* and never serves a request
C31_AddedNeverServes ==
    /\ \A k \in RrKeys(rr) \ RrRotation :
          /\ k \notin RrReturned /\ rr_last.result # k
          /\ rr_inflight[k] = 0 /\ rr.servers[k].total_requests = 0
    /\ \A k \in WrrKeys(wrr) \ WrrRotation :
          /\ wrr_last.op # "add_server" => wrr_last.result # k
          /\ wrr_inflight[k] = 0 /\ wrr.servers[k].total_requests = 0
\* C31, reached: after add_server on a one-backend RoundRobin pool the added
\* backend is eligible and two next() calls in a row returned the old one
C31_RotationMissedReached ==
    /\ RrKeys(rr) = {"s1", "s4"}
    /\ RrAllEligible(rr)
    /\ rr_hist = <<"s1", "s1">>
C31_WeightedMissedReached ==
    /\ "s4" \in WrrKeys(wrr)
    /\ WrrAllEligible(wrr)
    /\ wrr_last.op = "next" /\ wrr_last.result # "s4"
    /\ "s4" \in DOMAIN wrr_last.pre.servers

\* C37: the cached (min_response_time, min_response_time_key) changes only
\* at the completion of a request, on a backend that is healthy then, has a
\* success, and whose latency is strictly below the cached minimum (any
\* latency when nothing is cached); the new pair is that backend's latency
\* and name, so the cached minimum never increases.  next() returns the
\* cached key when there is one, else a healthy backend when there is one,
\* else some backend of the pool.
LtPre == lt_last.pre
LtCache(l) == <<l.min_response_time, l.min_response_time_key>>
LtCompleted == lt_last.op = "handle_request" /\ lt_last.result # "AssertionError"
LtSelected == lt_last.op \in {"next", "handle_start"} \/ lt_last.result = "AssertionError"
LtCacheReplacedAsStated ==
    LtCache(lt) # LtCache(LtPre) =>
        /\ LtCompleted
        /\ LET server == lt.servers[lt_last.key]
           IN  /\ server.healthy
               /\ server.sucess > 0
               /\ LtPre.min_response_time # None
                     => server.latency < LtPre.min_response_time[1]
               /\ LtCache(lt) = << <<server.latency>>, <<server.name>> >>
LtMinNeverIncreases ==
    LtPre.min_response_time # None =>
        /\ lt.min_response_time # None
        /\ lt.min_response_time[1] <= LtPre.min_response_time[1]
LtNextAsStated ==
    LtSelected =>
        IF LtPre.min_response_time_key # None
        THEN lt_last.key = LtPre.min_response_time_key[1]
        ELSE IF \E k \in LtKeys(LtPre) : LtPre.servers[k].healthy
        THEN lt_last.key \in LtKeys(LtPre) /\ LtPre.servers[lt_last.key].healthy
        ELSE lt_last.key \in LtKeys(LtPre)
C37_LeastTimeCache ==
    /\ LtCacheReplacedAsStated
    /\ LtMinNeverIncreases
    /\ LtNextAsStated
\* C37 witness: a completion replaced a cached minimum by a lower one, on a
\* pool of two backends of which one is unhealthy
C37_Witness ==
    /\ LtCompleted
    /\ LtPre.min_response_time # None
    /\ lt.min_response_time[1] < LtPre.min_response_time[1]
    /\ \E k \in LtKeys(lt) : ~lt.servers[k].healthy
\* C37, reached: next() returned the cached backend although it is unhealthy
\* and another backend is healthy; with nothing cached next() returned a
\* healthy backend while another is unhealthy, and an unhealthy one when
\* none is healthy; a healthy backend completed with a latency that is not
\* below the cached minimum, and an unhealthy one with a lower latency, and
\* the cache stayed
C37_CachedUnhealthyReached ==
    /\ lt_last.op = "next"
    /\ LtPre.min_response_time_key # None
    /\ ~lt.servers[lt_last.key].healthy
    /\ \E k \in LtKeys(lt) : lt.servers[k].healthy
C37_HealthyChosenReached ==
    /\ lt_last.op = "next"
    /\ LtPre.min_response_time_key = None
    /\ lt.servers[lt_last.key].healthy
    /\ \E k \in LtKeys(lt) : ~lt.servers[k].healthy
C37_NoneHealthyReached ==
    /\ lt_last.op = "next"
    /\ LtPre.min_response_time_key = None
    /\ Cardinality(LtKeys(lt)) = 2
    /\ \A k \in LtKeys(lt) : ~lt.servers[k].healthy
C37_SlowerKeptReached ==
    /\ LtCompleted
    /\ LtPre.min_response_time # None
    /\ lt.servers[lt_last.key].healthy /\ lt.servers[lt_last.key].sucess > 0
    /\ lt.servers[lt_last.key].latency >= LtPre.min_response_time[1]
    /\ LtCache(lt) = LtCache(LtPre)
C37_UnhealthyKeptReached ==
    /\ LtCompleted
    /\ LtPre.min_response_time # None
    /\ ~lt.servers[lt_last.key].healthy /\ lt.servers[lt_last.key].sucess > 0
    /\ lt.servers[lt_last.key].latency < LtPre.min_response_time[1]
    /\ LtCache(lt) = LtCache(LtPre)

====
